---- MODULE Spec2Model ----
(***************************************************************************)
(* Model of the Rollbar setup wizard: the CLI entry (bin/rollbar-wizard.js),*)
(* the project probes (utils/project.ts, nextjs/utils.ts), the templates    *)
(* (nextjs/templates.ts) and the Next.js wizard (nextjs/wizard.ts).         *)
(*                                                                         *)
(* The project directory is modelled as a set of directories and a function *)
(* from file paths to file contents.  A path is a record [dir, name, ext];  *)
(* a content is a record whose fields are the parts of the text the wizard  *)
(* reads or generates.  The optional strings of the code (undefined or '')  *)
(* are the empty string.                                                    *)
(***************************************************************************)
EXTENDS Integers, Sequences, FiniteSets, TLC

VARIABLES
    files,        \* the regular files of the project: [path -> content]
    dirs,         \* the directories of the project (sequences of segments)
    procEnv,      \* process.env: [server, client, codeVersion]
    listeners,    \* the listeners of the process for SIGINT and SIGTERM, in order
    user,         \* the answers the person at the terminal is going to give
    cmd,          \* the sub-command the CLI was started with
    options,      \* the options object passed to runNextjsWizard
    pc,           \* position of the process
    projectInfo,  \* result of detectProjectStructure
    draft,        \* the locals of gatherConfiguration and the prompt it waits at
    config,       \* result of gatherConfiguration / the --yes defaults
    exitCode,     \* NotExited, or the status the process ended with
    exitReason,   \* why the process ended
    run,          \* number of the current invocation of the CLI
    trace,        \* what the current invocation did, in order
    before,       \* the files when the current invocation started
    prev          \* [config, projectInfo, ok] of the previous invocation

vars == <<files, dirs, procEnv, listeners, user, cmd, options, pc, projectInfo, draft, config,
          exitCode, exitReason, run, trace, before, prev>>

-----------------------------------------------------------------------------
(* Bounds of the model *)

\* number of invocations of the CLI in one behaviour
MaxRuns == 2

NotExited == -1
Undefined == ""
NoInfo == [set |-> FALSE]
NoConfig == [set |-> FALSE]

-----------------------------------------------------------------------------
(* Paths *)

Root == <<>>
File(dir, name, ext) == [dir |-> dir, name |-> name, ext |-> ext]
NoPath == File(Root, "", "")

\* path.join(process.cwd(), ...dir) exists and is a directory
hasDirectoryPathFromRoot(ds, dir) == dir \in ds

\* fs.existsSync of a file path
existsSync(fs, p) == p \in DOMAIN fs

\* fs.mkdirSync(dir, {recursive: true})
mkdirSync(ds, dir) == ds \cup {SubSeq(dir, 1, n) : n \in 1..Len(dir)}

\* fs.promises.writeFile: creates or replaces the file
writeFile(fs, p, c) == (p :> c) @@ fs

-----------------------------------------------------------------------------
(* Names the wizard uses *)

ServerTokenKey == "ROLLBAR_PROJECT_ACCESS_SERVER_TOKEN"
ClientTokenKey == "NEXT_PUBLIC_ROLLBAR_PROJECT_ACCESS_CLIENT_TOKEN"
CodeVersionKey == "ROLLBAR_CODE_VERSION"
RollbarComment == "# Rollbar Configuration"
PBSM == "productionBrowserSourceMaps"
Placeholder == "/* config options here */"
NextConfigWord == "NextConfig"
UploadWord == "upload-sourcemaps"

PackageJsonPath == File(Root, "package", "json")
TsconfigPath == File(Root, "tsconfig", "json")
EnvLocalPath == File(Root, ".env", "local")
GitignorePath == File(Root, ".gitignore", "")
nextConfigJsPath == File(Root, "next.config", "js")
nextConfigMjsPath == File(Root, "next.config", "mjs")
nextConfigTsPath == File(Root, "next.config", "ts")

-----------------------------------------------------------------------------
(* Templates (nextjs/templates.ts).  A generated text is the record of the  *)
(* parts of it that depend on the template's arguments.  importUps is the   *)
(* number of '..' segments of the relative import of the rollbar config.    *)

accessTokenEnvVar(isVercel, vercelEnvVar, default) ==
    IF isVercel /\ vercelEnvVar # Undefined THEN vercelEnvVar ELSE default

getRollbarServerConfigContents(environment, codeVersion, isVercel, vercelServerTokenEnvVar) ==
    [kind |-> "rollbar.server.config",
     tokenVar |-> accessTokenEnvVar(isVercel, vercelServerTokenEnvVar, ServerTokenKey),
     environment |-> environment,
     codeVersion |-> codeVersion]

getRollbarEdgeConfigContents(environment, codeVersion, isVercel, vercelServerTokenEnvVar) ==
    [kind |-> "rollbar.edge.config",
     tokenVar |-> accessTokenEnvVar(isVercel, vercelServerTokenEnvVar, ServerTokenKey),
     environment |-> environment,
     codeVersion |-> codeVersion]

getRollbarClientConfigContents(environment, codeVersion, enableReplay, enableSourcemaps, isVercel, vercelClientTokenEnvVar) ==
    [kind |-> "rollbar.client.config",
     tokenVar |-> accessTokenEnvVar(isVercel, vercelClientTokenEnvVar, ClientTokenKey),
     environment |-> environment,
     rollbarImport |-> IF enableReplay THEN "rollbar/replay" ELSE "rollbar",
     replay |-> enableReplay,
     javascript |-> IF enableSourcemaps
                      THEN [present |-> TRUE, source_map_enabled |-> TRUE,
                            code_version |-> codeVersion]
                      ELSE IF codeVersion # Undefined
                             THEN [present |-> TRUE, source_map_enabled |-> FALSE,
                                   code_version |-> codeVersion]
                             ELSE [present |-> FALSE, source_map_enabled |-> FALSE,
                                   code_version |-> Undefined]]

getInstrumentationHookContent(instrumentationHookLocation) ==
    [kind |-> "instrumentation",
     imports |-> {"rollbar.server.config", "rollbar.edge.config"},
     importUps |-> IF instrumentationHookLocation = "root" THEN 0 ELSE 1]

getRollbarDefaultUnderscoreErrorPage(pagesLocation) ==
    [kind |-> "_error",
     imports |-> {"rollbar.server.config"},
     importUps |-> IF Len(pagesLocation) = 1 THEN 1 ELSE 2]

getRollbarDefaultGlobalErrorPage(isTs, appDirLocation) ==
    [kind |-> "global-error",
     typed |-> isTs,
     imports |-> {"rollbar.client.config"},
     importUps |-> IF Len(appDirLocation) = 1 THEN 1 ELSE 2]

\* a variant that keeps the default relative path '../..' for every location
getRollbarExamplePageContentsDefaultPath(useClient, isTypeScript, appDirLocation, pagesFolderLocation) ==
    [kind |-> "rollbar-example-page",
     useClient |-> useClient,
     typed |-> isTypeScript,
     imports |-> {"rollbar.client.config"},
     importUps |-> 2]

\* options.appDirLocation / options.pagesFolderLocation: <<>> when not passed
getRollbarExamplePageContents(useClient, isTypeScript, appDirLocation, pagesFolderLocation) ==
    [kind |-> "rollbar-example-page",
     useClient |-> useClient,
     typed |-> isTypeScript,
     imports |-> {"rollbar.client.config"},
     importUps |-> IF appDirLocation # <<>>
                     THEN (IF Len(appDirLocation) = 1 THEN 2 ELSE 3)
                     ELSE IF pagesFolderLocation # <<>>
                            THEN (IF Len(pagesFolderLocation) = 1 THEN 1 ELSE 2)
                            ELSE 2]

getRollbarExampleAppDirApiRoute(isTypeScript, appDirLocation) ==
    [kind |-> "rollbar-example-api.app",
     typed |-> isTypeScript,
     imports |-> {"rollbar.server.config"},
     importUps |-> IF Len(appDirLocation) = 1 THEN 3 ELSE 4]

getRollbarExamplePagesDirApiRoute(isTypeScript, pagesFolderLocation) ==
    [kind |-> "rollbar-example-api.pages",
     typed |-> isTypeScript,
     imports |-> {"rollbar.server.config"},
     importUps |-> IF Len(pagesFolderLocation) = 1 THEN 2 ELSE 3]

getSourceMapUploadScriptTemplate(isTypeScript, isVercel, vercelServerTokenEnvVar) ==
    [kind |-> "upload-sourcemaps",
     typed |-> isTypeScript,
     envVarChecks |->
        (IF isVercel /\ vercelServerTokenEnvVar # Undefined
           THEN <<vercelServerTokenEnvVar>> ELSE <<>>)
        \o <<ServerTokenKey, "VERCEL_ROLLBAR_SERVER_TOKEN", "ROLLBAR_SERVER_TOKEN">>]

\* the root layout createExamplePage writes (wizard.ts, inline template)
rootLayoutContent(isTypeScript) ==
    [kind |-> "layout", typed |-> isTypeScript]

(* A line of a next.config file: its text, the word line.trim() starts      *)
(* with (one of the prefixes setupNextjsConfig tests, "" for a blank line,  *)
(* "other" for anything else) and the needles the line includes.            *)
Line(text, starts, mentions) == [text |-> text, starts |-> starts, mentions |-> mentions]

sourceMapsConfig(enableSourcemaps) ==
    IF enableSourcemaps
      THEN << Line("// Enable source map generation for production builds", "//", {}),
              Line("// Source maps will be uploaded to Rollbar automatically after build", "//", {}),
              Line("productionBrowserSourceMaps: true,", "other", {PBSM}),
              Line("// Next.js 16+ uses Turbopack by default", "//", {}),
              Line("turbopack: {},", "other", {}) >>
      ELSE <<>>

\* the first line of a template continues with the first line of
\* sourceMapsConfig, which begins with a line break
getNextjsConfigCjsTemplate(enableSourcemaps) ==
    [kind |-> "next.config",
     lines |-> << Line("/** @type {import('next').NextConfig} */", "other", {NextConfigWord}),
                  Line("const nextConfig = {", "const", {}) >>
               \o sourceMapsConfig(enableSourcemaps)
               \o << Line("};", "other", {}),
                     Line("", "", {}),
                     Line("module.exports = nextConfig;", "module.exports", {}) >>]

getNextjsConfigTsTemplate(enableSourcemaps) ==
    [kind |-> "next.config",
     lines |-> << Line("import type { NextConfig } from 'next';", "import", {NextConfigWord}),
                  Line("", "", {}),
                  Line("const nextConfig: NextConfig = {", "const", {NextConfigWord}) >>
               \o sourceMapsConfig(enableSourcemaps)
               \o << Line("};", "other", {}),
                     Line("", "", {}),
                     Line("export default nextConfig;", "export", {}) >>]

getNextjsConfigMjsTemplate(enableSourcemaps) ==
    [kind |-> "next.config",
     lines |-> << Line("/** @type {import('next').NextConfig} */", "other", {NextConfigWord}),
                  Line("const nextConfig = {", "const", {}) >>
               \o sourceMapsConfig(enableSourcemaps)
               \o << Line("};", "other", {}),
                     Line("", "", {}),
                     Line("export default nextConfig;", "export", {}) >>]

-----------------------------------------------------------------------------
(* Structured files the wizard reads and patches *)

EmptyMap == [k \in {} |-> ""]

\* a JSON object member that is present and truthy
Truthy(map, key) == key \in DOMAIN map /\ map[key] # ""

(* package.json: valid is whether the text parses as JSON; postbuild is the *)
(* scripts.postbuild command line as its ' && '-separated commands (<<>>    *)
(* when the script is absent); normalized is whether the text is the        *)
(* wizard's JSON.stringify(.., null, 2) rendering.                          *)
PackageJson(valid, esm, dependencies, devDependencies, postbuild, normalized) ==
    [kind |-> "package.json", valid |-> valid, esm |-> esm,
     dependencies |-> dependencies, devDependencies |-> devDependencies,
     postbuild |-> postbuild, normalized |-> normalized]

\* what getPackageJson returns for a missing or unparseable file
NullPackageJson == PackageJson(FALSE, FALSE, EmptyMap, EmptyMap, <<>>, FALSE)

getPackageJson(fs) ==
    IF existsSync(fs, PackageJsonPath) /\ fs[PackageJsonPath].valid
      THEN fs[PackageJsonPath]
      ELSE NullPackageJson

\* JSON.stringify(packageJson, null, 2) + '\n'
stringifyPackageJson(pj) == [pj EXCEPT !.normalized = TRUE]

hasDependency(pj, pkg) ==
    Truthy(pj.dependencies, pkg) \/ Truthy(pj.devDependencies, pkg)

\* a detection that only looks for the manifest, not for `next` in it
isNextjsProjectByManifest(fs) ==
    existsSync(fs, PackageJsonPath)

isNextjsProject(fs) ==
    /\ existsSync(fs, PackageJsonPath)
    /\ fs[PackageJsonPath].valid
    /\ hasDependency(fs[PackageJsonPath], "next")

isNuxtjsProject(fs) ==
    /\ existsSync(fs, PackageJsonPath)
    /\ fs[PackageJsonPath].valid
    /\ \/ hasDependency(fs[PackageJsonPath], "nuxt")
       \/ hasDependency(fs[PackageJsonPath], "@nuxt/kit")
       \/ \E e \in {"ts", "js", "mjs"} : existsSync(fs, File(Root, "nuxt.config", e))

isSvelteProject(fs) ==
    /\ existsSync(fs, PackageJsonPath)
    /\ fs[PackageJsonPath].valid
    /\ \/ hasDependency(fs[PackageJsonPath], "svelte")
       \/ hasDependency(fs[PackageJsonPath], "@sveltejs/kit")
       \/ \E e \in {"js", "ts"} : existsSync(fs, File(Root, "svelte.config", e))

detectPackageManager(fs) ==
    IF existsSync(fs, File(Root, "pnpm-lock", "yaml")) THEN "pnpm"
    ELSE IF existsSync(fs, File(Root, "yarn", "lock")) THEN "yarn"
    ELSE "npm"

checkHasTypescript(fs) == existsSync(fs, TsconfigPath)

(* tsconfig.json: valid is whether JSON.parse accepts the text (a tsconfig  *)
(* with comments does not parse); hasExclude is whether "exclude" is there. *)
Tsconfig(valid, hasExclude, exclude, normalized) ==
    [kind |-> "tsconfig.json", valid |-> valid, hasExclude |-> hasExclude,
     exclude |-> exclude, normalized |-> normalized]

(* .env.local and .gitignore: the lines of the text, and whether the text   *)
(* ends with a line break.  A line is [t, key, val]: an assignment key=val, *)
(* a comment or entry whose text is key, or a blank line.                   *)
EnvLine(t, key, val) == [t |-> t, key |-> key, val |-> val]
BlankLine == EnvLine("blank", "", "")
TextFile(kind, lines, eol) == [kind |-> kind, lines |-> lines, eol |-> eol]

\* the pairs <<text, needle>> of the model's line texts where needle is a
\* proper substring of text
SubstringPairs ==
    { <<"# Rollbar Configuration (Vercel)", RollbarComment>>,
      <<"# ROLLBAR_PROJECT_ACCESS_SERVER_TOKEN=", ServerTokenKey>>,
      <<"# Set ROLLBAR_CODE_VERSION to track deployments (e.g., git commit SHA, semver, build number)",
        CodeVersionKey>>,
      <<"# ROLLBAR_CODE_VERSION=your-version-here", CodeVersionKey>>,
      <<"!.env.local.example", ".env.local">> }

textIncludes(text, needle) ==
    text = needle \/ <<text, needle>> \in SubstringPairs

\* a "joined" line is the text key immediately followed by the text val
lineIncludes(line, needle) ==
    \/ textIncludes(line.key, needle)
    \/ line.t = "joined" /\ textIncludes(line.val, needle)

\* content.includes(needle), for a needle without a line break
includes(content, needle) ==
    \E i \in DOMAIN content.lines : lineIncludes(content.lines[i], needle)

(* content += text, where text is a line break followed by whole lines: the *)
(* line break ends the last line when the content does not end with one,    *)
(* and is a blank line otherwise.                                           *)
appendBreakThenLines(content, ls) ==
    [content EXCEPT !.lines = (IF content.eol THEN @ \o <<BlankLine>> ELSE @) \o ls,
                    !.eol = TRUE]

(* content += text, where text is whole lines: the first one continues the  *)
(* last line of a content that does not end with a line break.              *)
Joined(a, b) == EnvLine("joined", a.key, b.key)
appendLines(content, ls) ==
    IF content.eol \/ ls = <<>>
      THEN [content EXCEPT !.lines = @ \o ls, !.eol = (ls # <<>>) \/ @]
      ELSE [content EXCEPT
              !.lines = SubSeq(@, 1, Len(@) - 1)
                        \o <<Joined(@[Len(@)], ls[1])>> \o Tail(ls),
              !.eol = TRUE]

\* the empty text a missing .env.local is read as
EmptyText(kind) == TextFile(kind, <<>>, TRUE)

-----------------------------------------------------------------------------
(* Effects.  A handler is modelled by the sequence of effects it issues     *)
(* when none of them fails: file writes, directory creations, subprocesses  *)
(* and messages (clack.log).  An effect that reads the project reads it     *)
(* as the effects before it left it.                                        *)

NoContent == [kind |-> "none"]
Write(p, c) == [op |-> "write", path |-> p, content |-> c, level |-> "", caught |-> FALSE]
\* a write inside a try block whose catch only warns
CaughtWrite(p, c) == [op |-> "write", path |-> p, content |-> c, level |-> "", caught |-> TRUE]
Mkdir(dir) == [op |-> "mkdir", path |-> File(dir, "", ""), content |-> NoContent,
               level |-> "", caught |-> FALSE]
Log(level, p) == [op |-> "log", path |-> p, content |-> NoContent, level |-> level,
                  caught |-> FALSE]
\* execSync of a package manager; content is the package.json it leaves
\* (NoContent when it leaves the file as it was)
Exec(what, c) == [op |-> "exec", path |-> PackageJsonPath, content |-> c, level |-> what,
                  caught |-> FALSE]

\* one entry of the trace
Event(phase, step, existed) ==
    [phase |-> phase, op |-> step.op, path |-> step.path, level |-> step.level,
     existed |-> existed]

applyStepFiles(fs, step) ==
    IF step.op = "write" \/ (step.op = "exec" /\ step.content # NoContent)
      THEN writeFile(fs, step.path, step.content)
      ELSE fs

applyStepDirs(ds, step) ==
    IF step.op = "mkdir" THEN mkdirSync(ds, step.path.dir) ELSE ds

RECURSIVE filesAfter(_, _)
filesAfter(fs, steps) ==
    IF steps = <<>> THEN fs
    ELSE filesAfter(applyStepFiles(fs, Head(steps)), Tail(steps))

RECURSIVE dirsAfter(_, _)
dirsAfter(ds, steps) ==
    IF steps = <<>> THEN ds
    ELSE dirsAfter(applyStepDirs(ds, Head(steps)), Tail(steps))

RECURSIVE eventsOf(_, _, _)
eventsOf(fs, steps, phase) ==
    IF steps = <<>> THEN <<>>
    ELSE <<Event(phase, Head(steps), existsSync(fs, Head(steps).path))>>
         \o eventsOf(applyStepFiles(fs, Head(steps)), Tail(steps), phase)

\* the positions of the writes of a handler: each of them may fail
WritePositions(steps) == {i \in DOMAIN steps : steps[i].op = "write"}

Prompt(name) == [op |-> "prompt", path |-> NoPath, content |-> NoContent, level |-> name,
                 caught |-> FALSE]

-----------------------------------------------------------------------------
(* createConfigFiles (wizard.ts) *)

createConfigFiles(cfg, info) ==
    LET ext == IF info.hasTypescript THEN "ts" ELSE "js"
        serverPath == File(Root, "rollbar.server.config", ext)
        edgePath == File(Root, "rollbar.edge.config", ext)
        clientPath == File(Root, "rollbar.client.config", ext)
    IN  << Write(serverPath,
                 getRollbarServerConfigContents(cfg.environment, cfg.codeVersion,
                                                cfg.isVercel, cfg.vercelServerTokenEnvVar)),
           Log("success", serverPath),
           Write(edgePath,
                 getRollbarEdgeConfigContents(cfg.environment, cfg.codeVersion,
                                              cfg.isVercel, cfg.vercelServerTokenEnvVar)),
           Log("success", edgePath),
           Write(clientPath,
                 getRollbarClientConfigContents(cfg.environment, cfg.codeVersion,
                                                cfg.enableReplay, cfg.enableSourcemaps,
                                                cfg.isVercel, cfg.vercelClientTokenEnvVar)),
           Log("success", clientPath) >>

-----------------------------------------------------------------------------
(* setupInstrumentationHook (wizard.ts) *)

instrumentationHookLocation(fs, ds) ==
    LET hasRootAppDirectory == hasDirectoryPathFromRoot(ds, <<"app">>)
        hasRootPagesDirectory == hasDirectoryPathFromRoot(ds, <<"pages">>)
        instrumentationTsExists == existsSync(fs, File(Root, "instrumentation", "ts"))
        instrumentationJsExists == existsSync(fs, File(Root, "instrumentation", "js"))
        srcInstrumentationTsExists == existsSync(fs, File(<<"src">>, "instrumentation", "ts"))
        srcInstrumentationJsExists == existsSync(fs, File(<<"src">>, "instrumentation", "js"))
    IN  IF hasRootPagesDirectory \/ hasRootAppDirectory
          THEN (IF instrumentationJsExists \/ instrumentationTsExists
                  THEN "root" ELSE "does-not-exist")
          ELSE (IF srcInstrumentationTsExists \/ srcInstrumentationJsExists
                  THEN "src" ELSE "does-not-exist")

\* a precedence that prefers `src` whenever it exists
newInstrumentationHookLocationSrcFirst(ds) ==
    IF hasDirectoryPathFromRoot(ds, <<"src">>) THEN "src" ELSE "root"

newInstrumentationHookLocation(ds) ==
    IF hasDirectoryPathFromRoot(ds, <<"pages">>) \/ hasDirectoryPathFromRoot(ds, <<"app">>)
      THEN "root"
      ELSE IF hasDirectoryPathFromRoot(ds, <<"src">>) THEN "src" ELSE "root"

newInstrumentationHookPath(ds, info) ==
    File(IF newInstrumentationHookLocation(ds) = "root" THEN Root ELSE <<"src">>,
         "instrumentation", IF info.hasTypescript THEN "ts" ELSE "js")

\* the effects up to the end of the handler or up to its confirmation prompt
setupInstrumentationHook(fs, ds, info) ==
    IF instrumentationHookLocation(fs, ds) = "does-not-exist"
      THEN << Write(newInstrumentationHookPath(ds, info),
                    getInstrumentationHookContent(newInstrumentationHookLocation(ds))),
              Log("success", newInstrumentationHookPath(ds, info)) >>
      ELSE << Log("info", NoPath), Prompt("instrumentation") >>

-----------------------------------------------------------------------------
(* setupErrorPages (wizard.ts), getMaybeAppDirLocation (nextjs/utils.ts) *)

\* <<>> stands for undefined
getMaybeAppDirLocation(ds) ==
    IF <<"app">> \in ds THEN <<"app">>
    ELSE IF <<"src", "app">> \in ds THEN <<"src", "app">>
    ELSE <<>>

pagesLocation(ds) ==
    IF <<"pages">> \in ds THEN <<"pages">>
    ELSE IF <<"src", "pages">> \in ds THEN <<"src", "pages">>
    ELSE <<>>

ErrorPageExts == {"tsx", "ts", "jsx", "js"}

\* a probe that only looks for the JavaScript variants
errorPageFileJavaScript(fs, dir, name) ==
    \E e \in {"jsx", "js"} : existsSync(fs, File(dir, name, e))

errorPageFile(fs, dir, name) ==
    \E e \in ErrorPageExts : existsSync(fs, File(dir, name, e))

setupErrorPages(fs, ds, info, routerType) ==
    LET ext == IF info.hasTypescript THEN "tsx" ELSE "jsx"
        pagesLoc == pagesLocation(ds)
        appLoc == getMaybeAppDirLocation(ds)
        underscoreErrorPath == File(pagesLoc, "_error", ext)
        globalErrorPath == File(appLoc, "global-error", ext)
    IN  (IF /\ routerType \in {"pages", "both"}
            /\ pagesLoc # <<>>
            /\ ~errorPageFile(fs, pagesLoc, "_error")
           THEN << Write(underscoreErrorPath, getRollbarDefaultUnderscoreErrorPage(pagesLoc)),
                   Log("success", underscoreErrorPath) >>
           ELSE <<>>)
        \o
        (IF /\ routerType \in {"app", "both"}
            /\ appLoc # <<>>
            /\ ~errorPageFile(fs, appLoc, "global-error")
           THEN << Write(globalErrorPath,
                         getRollbarDefaultGlobalErrorPage(info.hasTypescript, appLoc)),
                   Log("success", globalErrorPath) >>
           ELSE <<>>)

-----------------------------------------------------------------------------
(* setupEnvironmentVariables (wizard.ts) *)

VercelDefaultClientVar == "VERCEL_ROLLBAR_CLIENT_TOKEN"
VercelDefaultServerVar == "VERCEL_ROLLBAR_SERVER_TOKEN"

envContentAfter(envContent, cfg) ==
    LET withTokens ==
          IF cfg.isVercel
            THEN (IF ~includes(envContent, RollbarComment)
                    THEN appendBreakThenLines(envContent,
                           << EnvLine("comment", "# Rollbar Configuration (Vercel)", ""),
                              EnvLine("comment", "# These environment variables are set by Vercel's Rollbar integration", ""),
                              EnvLine("comment", "# Client Token:",
                                      IF cfg.vercelClientTokenEnvVar # Undefined
                                        THEN cfg.vercelClientTokenEnvVar
                                        ELSE VercelDefaultClientVar),
                              EnvLine("comment", "# Server Token:",
                                      IF cfg.vercelServerTokenEnvVar # Undefined
                                        THEN cfg.vercelServerTokenEnvVar
                                        ELSE VercelDefaultServerVar) >>)
                    ELSE envContent)
            ELSE (IF ~includes(envContent, ServerTokenKey)
                    THEN appendBreakThenLines(envContent,
                           << EnvLine("comment", RollbarComment, ""),
                              EnvLine("assign", ServerTokenKey, cfg.serverAccessToken),
                              EnvLine("assign", ClientTokenKey, cfg.clientAccessToken) >>)
                    ELSE envContent)
    IN  IF cfg.enableDeployment /\ cfg.codeVersion # Undefined
           /\ ~includes(withTokens, CodeVersionKey)
          THEN appendLines(withTokens,
                           << EnvLine("assign", CodeVersionKey, cfg.codeVersion) >>)
          ELSE IF cfg.enableDeployment /\ ~includes(withTokens, CodeVersionKey)
                 THEN appendLines(withTokens,
                        << EnvLine("comment", "# Set ROLLBAR_CODE_VERSION to track deployments (e.g., git commit SHA, semver, build number)", ""),
                           EnvLine("comment", "# ROLLBAR_CODE_VERSION=your-version-here", "") >>)
                 ELSE withTokens

\* a variant that appends the token lines in Vercel mode as well
setupEnvironmentVariablesWithTokens(fs, cfg) ==
    LET envContent == IF existsSync(fs, EnvLocalPath) THEN fs[EnvLocalPath]
                      ELSE EmptyText(".env.local")
    IN  << Write(EnvLocalPath, envContentAfter(envContent, [cfg EXCEPT !.isVercel = FALSE])),
           Log("success", EnvLocalPath) >>

setupEnvironmentVariables(fs, cfg) ==
    LET envContent == IF existsSync(fs, EnvLocalPath) THEN fs[EnvLocalPath]
                      ELSE EmptyText(".env.local")
    IN  << Write(EnvLocalPath, envContentAfter(envContent, cfg)),
           Log("success", EnvLocalPath) >>
        \o
        (IF existsSync(fs, GitignorePath) /\ ~includes(fs[GitignorePath], ".env.local")
           THEN << Write(GitignorePath,
                         appendBreakThenLines(fs[GitignorePath],
                            << EnvLine("comment", "# Environment variables", ""),
                               EnvLine("entry", ".env.local", "") >>)) >>
           ELSE <<>>)

-----------------------------------------------------------------------------
(* setupNextjsConfig (wizard.ts) *)

configIncludes(content, needle) ==
    \E i \in DOMAIN content.lines : needle \in content.lines[i].mentions

\* the lines left by the filter of isEmptyConfig
meaningfulLines(content) ==
    {i \in DOMAIN content.lines :
        /\ content.lines[i].starts = "other"
        /\ NextConfigWord \notin content.lines[i].mentions}

EmptyConfigMaxLines == 2

isEmptyConfig(content) ==
    \/ configIncludes(content, Placeholder)
    \/ Cardinality(meaningfulLines(content)) <= EmptyConfigMaxLines

\* the branch taken for an existing config file, given the two tests
existingConfigBranch(isEmpty, hasProductionBrowserSourceMaps) ==
    IF isEmpty \/ ~hasProductionBrowserSourceMaps THEN "update"
    ELSE IF ~hasProductionBrowserSourceMaps THEN "warn"
    ELSE "info"

setupNextjsConfig(fs, cfg, info) ==
    LET hasNextConfigJs == existsSync(fs, nextConfigJsPath)
        hasNextConfigMjs == existsSync(fs, nextConfigMjsPath)
        hasNextConfigTs == existsSync(fs, nextConfigTsPath)
        configPath == IF hasNextConfigJs THEN nextConfigJsPath
                      ELSE IF hasNextConfigMjs THEN nextConfigMjsPath
                      ELSE nextConfigTsPath
        configContent == fs[configPath]
        newConfigContent ==
            IF hasNextConfigTs THEN getNextjsConfigTsTemplate(cfg.enableSourcemaps)
            ELSE IF hasNextConfigMjs THEN getNextjsConfigMjsTemplate(cfg.enableSourcemaps)
            ELSE getNextjsConfigCjsTemplate(cfg.enableSourcemaps)
        branch == existingConfigBranch(isEmptyConfig(configContent),
                                       configIncludes(configContent, PBSM))
        isEsm == getPackageJson(fs).valid /\ getPackageJson(fs).esm
    IN  IF ~cfg.enableSourcemaps THEN <<>>
        ELSE IF hasNextConfigJs \/ hasNextConfigMjs \/ hasNextConfigTs
          THEN (IF branch = "update"
                  THEN << Write(configPath, newConfigContent), Log("success", configPath) >>
                  ELSE IF branch = "warn"
                         THEN << Log("warn", configPath) >>
                         ELSE << Log("info", configPath) >>)
          ELSE (IF info.hasTypescript /\ existsSync(fs, nextConfigTsPath)
                  THEN << Write(nextConfigTsPath,
                                getNextjsConfigTsTemplate(cfg.enableSourcemaps)),
                          Log("success", nextConfigTsPath) >>
                  ELSE IF isEsm \/ info.hasTypescript
                         THEN << Write(nextConfigMjsPath,
                                       getNextjsConfigMjsTemplate(cfg.enableSourcemaps)),
                                 Log("success", nextConfigMjsPath) >>
                         ELSE << Write(nextConfigJsPath,
                                       getNextjsConfigCjsTemplate(cfg.enableSourcemaps)),
                                 Log("success", nextConfigJsPath) >>)

-----------------------------------------------------------------------------
(* setupSourceMapUploadScript, excludeScriptsFromTypeChecking (wizard.ts) *)

\* a list that leaves out the packages a TypeScript script needs
requiredPackagesJavaScript(info) ==
    <<"form-data", "node-fetch", "glob">>

requiredPackages(info) ==
    <<"form-data", "node-fetch", "glob">>
    \o (IF info.hasTypescript THEN <<"tsx", "@types/glob">> ELSE <<>>)

packageVersions ==
    [pkg \in {"form-data", "node-fetch", "glob", "tsx", "@types/glob"} |->
        CASE pkg = "form-data" -> "^4.0.0"
          [] pkg = "node-fetch" -> "^3.3.2"
          [] pkg = "glob" -> "^13.0.0"
          [] pkg = "tsx" -> "^4.20.6"
          [] pkg = "@types/glob" -> "^8.0.0"]

\* a test that looks for the package in devDependencies only
isMissingFromDevDependencies(pj, pkg) == ~Truthy(pj.devDependencies, pkg)

isMissing(pj, pkg) == ~hasDependency(pj, pkg)

missingPackages(pj, info) ==
    SelectSeq(requiredPackages(info), LAMBDA pkg : isMissing(pj, pkg))

Range(seq) == {seq[i] : i \in DOMAIN seq}

\* the version a package manager records for a package it installs
InstalledVersion == "installed"

\* package.json after `<pm> add -D pkgs` succeeded: a package manager adds
\* the packages it was asked for, and keeps an entry that is already there
withInstalled(pj, section, pkgs) ==
    LET old == pj[section]
        new == [k \in DOMAIN old \cup pkgs |->
                  IF k \in DOMAIN old /\ old[k] # "" THEN old[k] ELSE InstalledVersion]
    IN  [pj EXCEPT ![section] = new]

\* the loop "Add missing packages to devDependencies"
addToDevDependencies(pj, pkgs) ==
    LET old == pj.devDependencies
    IN  [pj EXCEPT !.devDependencies =
            [k \in DOMAIN old \cup pkgs |->
                IF k \in pkgs /\ ~Truthy(old, k) THEN packageVersions[k] ELSE old[k]]]

uploadCommand(info) ==
    IF info.hasTypescript THEN "tsx scripts/upload-sourcemaps.ts"
    ELSE "node scripts/upload-sourcemaps.js"

\* the commands of the model that include 'upload-sourcemaps'
commandIncludesUpload(command) ==
    command \in {"tsx scripts/upload-sourcemaps.ts", "node scripts/upload-sourcemaps.js",
                 "npm run upload-sourcemaps"}

postbuildIncludesUpload(postbuild) ==
    \E i \in DOMAIN postbuild : commandIncludesUpload(postbuild[i])

\* a variant of newPostbuild that appends the command without the
\* includes('upload-sourcemaps') test; the properties of a second run must
\* tell it from newPostbuild
appendPostbuild(postbuild, command) ==
    IF postbuild = <<>> THEN <<command>> ELSE postbuild \o <<command>>

\* a variant of newPostbuild that sets the script to the upload command
\* alone, dropping what the script held
replacePostbuild(postbuild, command) ==
    IF postbuildIncludesUpload(postbuild) THEN postbuild ELSE <<command>>

\* scripts.postbuild after the wizard's edit
newPostbuild(postbuild, command) ==
    IF postbuild = <<>> THEN <<command>>
    ELSE IF ~postbuildIncludesUpload(postbuild) THEN postbuild \o <<command>>
    ELSE postbuild

excludeScriptsFromTypeChecking(fs, info) ==
    IF ~info.hasTypescript THEN <<>>
    ELSE IF ~existsSync(fs, TsconfigPath) THEN <<>>
    ELSE IF ~fs[TsconfigPath].valid THEN << Log("warn", TsconfigPath) >>
    ELSE IF ~fs[TsconfigPath].hasExclude \/ "scripts" \notin Range(fs[TsconfigPath].exclude)
      THEN << CaughtWrite(TsconfigPath,
                          [fs[TsconfigPath] EXCEPT !.hasExclude = TRUE,
                                                   !.exclude = @ \o <<"scripts">>,
                                                   !.normalized = TRUE]),
              Log("success", TsconfigPath) >>
      ELSE <<>>

\* installOk: whether the execSync of the install command succeeds
setupSourceMapUploadScript(fs, ds, cfg, info, installOk) ==
    LET scriptsDir == <<"scripts">>
        scriptExt == IF info.hasTypescript THEN "ts" ELSE "js"
        scriptPath == File(scriptsDir, "upload-sourcemaps", scriptExt)
        scriptSteps ==
            (IF ~hasDirectoryPathFromRoot(ds, scriptsDir) THEN <<Mkdir(scriptsDir)>> ELSE <<>>)
            \o << Write(scriptPath,
                        getSourceMapUploadScriptTemplate(info.hasTypescript, cfg.isVercel,
                                                         cfg.vercelServerTokenEnvVar)),
                  Log("success", scriptPath) >>
        packageJson == getPackageJson(fs)
        missing == missingPackages(packageJson, info)
        installed == IF packageJson.valid
                       THEN withInstalled(packageJson, "devDependencies", Range(missing))
                       ELSE NoContent
        installSteps ==
            IF missing = <<>> THEN <<>>
            ELSE IF installOk
              THEN << Log("info", NoPath), Exec("install", installed), Log("success", NoPath),
                      Log("info", NoPath), Exec("sync", NoContent) >>
              ELSE << Log("info", NoPath), Exec("install-failed", NoContent),
                      Log("warn", NoPath), Log("warn", NoPath) >>
        fsInstalled == filesAfter(fs, installSteps)
        updatedPackageJson == getPackageJson(fsInstalled)
        dependencySteps ==
            IF updatedPackageJson.valid /\ missing # <<>>
              THEN << Write(PackageJsonPath,
                            stringifyPackageJson(
                                addToDevDependencies(updatedPackageJson, Range(missing)))),
                      Log("info", PackageJsonPath) >>
              ELSE <<>>
        finalPackageJson == getPackageJson(filesAfter(fsInstalled, dependencySteps))
        postbuildSteps ==
            IF ~finalPackageJson.valid THEN <<>>
            ELSE IF newPostbuild(finalPackageJson.postbuild, uploadCommand(info))
                    # finalPackageJson.postbuild
              THEN << Write(PackageJsonPath,
                            stringifyPackageJson(
                                [finalPackageJson EXCEPT
                                    !.postbuild = newPostbuild(@, uploadCommand(info))])),
                      Log("success", PackageJsonPath) >>
              ELSE << Log("info", PackageJsonPath) >>
    IN  scriptSteps \o installSteps \o dependencySteps \o postbuildSteps
        \o excludeScriptsFromTypeChecking(fs, info)

-----------------------------------------------------------------------------
(* createExamplePage (wizard.ts), hasRootLayoutFile (nextjs/utils.ts) *)

hasRootLayoutFile(fs, appFolderPath) ==
    \E e \in {"jsx", "tsx", "js"} : existsSync(fs, File(appFolderPath, "layout", e))

createExamplePage(fs, ds, cfg, info) ==
    LET hasSrcDirectory == hasDirectoryPathFromRoot(ds, <<"src">>)
        appFolderLocation == getMaybeAppDirLocation(ds)
        foundPagesFolderLocation == pagesLocation(ds)
        makePages == appFolderLocation = <<>> /\ foundPagesFolderLocation = <<>>
        newPagesFolderLocation == IF hasSrcDirectory THEN <<"src", "pages">> ELSE <<"pages">>
        pagesFolderLocation == IF makePages THEN newPagesFolderLocation
                               ELSE foundPagesFolderLocation
        xExt == IF info.hasTypescript THEN "tsx" ELSE "jsx"
        sExt == IF info.hasTypescript THEN "ts" ELSE "js"
        layoutPath == File(appFolderLocation, "layout", xExt)
        appPagePath == File(appFolderLocation \o <<"rollbar-example-page">>, "page", xExt)
        appRoutePath == File(appFolderLocation \o <<"api", "rollbar-example-api">>,
                             "route", sExt)
        pagesPagePath == File(pagesFolderLocation, "rollbar-example-page", xExt)
        pagesRoutePath == File(pagesFolderLocation \o <<"api">>, "rollbar-example-api", sExt)
    IN  (IF makePages THEN <<Mkdir(newPagesFolderLocation)>> ELSE <<>>)
        \o
        (IF appFolderLocation # <<>>
           THEN (IF ~hasRootLayoutFile(fs, appFolderLocation)
                   THEN << Write(layoutPath, rootLayoutContent(info.hasTypescript)),
                           Log("success", layoutPath) >>
                   ELSE <<>>)
                \o << Mkdir(appFolderLocation \o <<"rollbar-example-page">>),
                      Write(appPagePath,
                            getRollbarExamplePageContents(TRUE, info.hasTypescript,
                                                          appFolderLocation, <<>>)),
                      Log("success", appPagePath),
                      Mkdir(appFolderLocation \o <<"api", "rollbar-example-api">>),
                      Write(appRoutePath,
                            getRollbarExampleAppDirApiRoute(info.hasTypescript,
                                                            appFolderLocation)),
                      Log("success", appRoutePath) >>
           ELSE << Write(pagesPagePath,
                         getRollbarExamplePageContents(FALSE, info.hasTypescript,
                                                       <<>>, pagesFolderLocation)),
                   Log("success", pagesPagePath),
                   Mkdir(pagesFolderLocation \o <<"api">>),
                   Write(pagesRoutePath,
                         getRollbarExamplePagesDirApiRoute(info.hasTypescript,
                                                           pagesFolderLocation)),
                   Log("success", pagesRoutePath) >>)

-----------------------------------------------------------------------------
(* The projects the wizard is started in.  A layout names, feature by      *)
(* feature, what the project directory holds before the first invocation.   *)

UserFile == [kind |-> "user"]

\* hand-written next.config bodies (the members of the config object)
ConfigBody(name) ==
    CASE name = "placeholder" ->
           << Line("/* config options here */", "other", {Placeholder}) >>
      [] name = "small" ->
           << Line("reactStrictMode: true,", "other", {}) >>
      [] name = "custom" ->
           << Line("reactStrictMode: true,", "other", {}),
              Line("poweredByHeader: false,", "other", {}),
              Line("images: { unoptimized: true },", "other", {}) >>
      [] name = "sourcemaps" ->
           << Line("reactStrictMode: true,", "other", {}),
              Line("poweredByHeader: false,", "other", {}),
              Line("productionBrowserSourceMaps: true,", "other", {PBSM}) >>
      [] name = "smallmaps" ->
           << Line("productionBrowserSourceMaps: true,", "other", {PBSM}) >>

UserNextConfig(ext, body) ==
    [kind |-> "next.config",
     lines |->
        (IF ext = "ts"
           THEN << Line("import type { NextConfig } from 'next';", "import", {NextConfigWord}),
                   Line("const nextConfig: NextConfig = {", "const", {NextConfigWord}) >>
           ELSE << Line("const nextConfig = {", "const", {}) >>)
        \o ConfigBody(body)
        \o << Line("};", "other", {}) >>
        \o (IF ext = "js"
              THEN << Line("module.exports = nextConfig;", "module.exports", {}) >>
              ELSE << Line("export default nextConfig;", "export", {}) >>)]

NextConfigSamples ==
    { "none", "js.placeholder", "js.small", "js.custom", "js.sourcemaps", "js.smallmaps",
      "mjs.custom", "ts.placeholder", "ts.custom", "ts.sourcemaps",
      "js.custom+ts.custom", "mjs.placeholder+ts.sourcemaps" }

NextConfigFiles(sample) ==
    CASE sample = "none" -> EmptyMap
      [] sample = "js.placeholder" -> nextConfigJsPath :> UserNextConfig("js", "placeholder")
      [] sample = "js.small" -> nextConfigJsPath :> UserNextConfig("js", "small")
      [] sample = "js.custom" -> nextConfigJsPath :> UserNextConfig("js", "custom")
      [] sample = "js.sourcemaps" -> nextConfigJsPath :> UserNextConfig("js", "sourcemaps")
      [] sample = "js.smallmaps" -> nextConfigJsPath :> UserNextConfig("js", "smallmaps")
      [] sample = "mjs.custom" -> nextConfigMjsPath :> UserNextConfig("mjs", "custom")
      [] sample = "ts.placeholder" -> nextConfigTsPath :> UserNextConfig("ts", "placeholder")
      [] sample = "ts.custom" -> nextConfigTsPath :> UserNextConfig("ts", "custom")
      [] sample = "ts.sourcemaps" -> nextConfigTsPath :> UserNextConfig("ts", "sourcemaps")
      [] sample = "js.custom+ts.custom" ->
           (nextConfigJsPath :> UserNextConfig("js", "custom"))
           @@ (nextConfigTsPath :> UserNextConfig("ts", "custom"))
      [] sample = "mjs.placeholder+ts.sourcemaps" ->
           (nextConfigMjsPath :> UserNextConfig("mjs", "placeholder"))
           @@ (nextConfigTsPath :> UserNextConfig("ts", "sourcemaps"))

PackageSamples ==
    { "next", "next.esm", "next.helpers", "next.complete", "next.postbuild",
      "next.uploading", "nuxt", "svelte", "nuxt.svelte", "all", "other", "malformed",
      "missing" }

NextDeps == ("next" :> "^15.0.0") @@ ("react" :> "^19.0.0")

PackageFiles(sample) ==
    CASE sample = "missing" -> EmptyMap
      [] sample = "malformed" -> PackageJsonPath :> NullPackageJson
      [] sample = "next" ->
           PackageJsonPath :> PackageJson(TRUE, FALSE, NextDeps, EmptyMap, <<>>, FALSE)
      [] sample = "next.esm" ->
           PackageJsonPath :> PackageJson(TRUE, TRUE, NextDeps, EmptyMap, <<>>, FALSE)
      [] sample = "next.helpers" ->
           PackageJsonPath :>
             PackageJson(TRUE, FALSE, ("form-data" :> "^3.0.1") @@ NextDeps,
                         ("glob" :> "^10.0.0") @@ ("tsx" :> ""), <<>>, FALSE)
      [] sample = "next.complete" ->
           PackageJsonPath :>
             PackageJson(TRUE, FALSE,
                         ("form-data" :> "^3.0.1") @@ ("node-fetch" :> "^2.7.0") @@ NextDeps,
                         ("glob" :> "^10.0.0") @@ ("tsx" :> "^4.0.0")
                           @@ ("@types/glob" :> "^8.1.0"),
                         <<>>, FALSE)
      [] sample = "next.postbuild" ->
           PackageJsonPath :>
             PackageJson(TRUE, FALSE, NextDeps, EmptyMap, <<"next-sitemap">>, FALSE)
      [] sample = "next.uploading" ->
           PackageJsonPath :>
             PackageJson(TRUE, FALSE, NextDeps, EmptyMap,
                         <<"next-sitemap", "npm run upload-sourcemaps">>, FALSE)
      [] sample = "nuxt" ->
           PackageJsonPath :>
             PackageJson(TRUE, FALSE, "nuxt" :> "^3.0.0", EmptyMap, <<>>, FALSE)
      [] sample = "svelte" ->
           PackageJsonPath :>
             PackageJson(TRUE, FALSE, EmptyMap, "svelte" :> "^5.0.0", <<>>, FALSE)
      [] sample = "nuxt.svelte" ->
           PackageJsonPath :>
             PackageJson(TRUE, FALSE, "nuxt" :> "^3.0.0", "svelte" :> "^5.0.0", <<>>, FALSE)
      [] sample = "all" ->
           PackageJsonPath :>
             PackageJson(TRUE, FALSE, ("nuxt" :> "^3.0.0") @@ NextDeps,
                         "svelte" :> "^5.0.0", <<>>, FALSE)
      [] sample = "other" ->
           PackageJsonPath :>
             PackageJson(TRUE, FALSE, "express" :> "^4.0.0", EmptyMap, <<>>, FALSE)

TsconfigSamples == {"none", "plain", "comments", "excludes.other", "excludes.scripts"}

TsconfigFiles(sample) ==
    CASE sample = "none" -> EmptyMap
      [] sample = "plain" -> TsconfigPath :> Tsconfig(TRUE, FALSE, <<>>, FALSE)
      [] sample = "comments" -> TsconfigPath :> Tsconfig(FALSE, FALSE, <<>>, FALSE)
      [] sample = "excludes.other" ->
           TsconfigPath :> Tsconfig(TRUE, TRUE, <<"node_modules">>, FALSE)
      [] sample = "excludes.scripts" ->
           TsconfigPath :> Tsconfig(TRUE, TRUE, <<"node_modules", "scripts">>, FALSE)

EnvSamples ==
    { "none", "user", "user.noeol", "tokens", "server.only", "commented", "version" }

UserEnvLine == EnvLine("assign", "DATABASE_URL", "postgres://localhost")

EnvFiles(sample) ==
    CASE sample = "none" -> EmptyMap
      [] sample = "user" -> EnvLocalPath :> TextFile(".env.local", <<UserEnvLine>>, TRUE)
      [] sample = "user.noeol" ->
           EnvLocalPath :> TextFile(".env.local", <<UserEnvLine>>, FALSE)
      [] sample = "tokens" ->
           EnvLocalPath :>
             TextFile(".env.local",
                      << EnvLine("assign", ClientTokenKey, "old-client"), UserEnvLine,
                         EnvLine("assign", ServerTokenKey, "old-server") >>, FALSE)
      [] sample = "server.only" ->
           EnvLocalPath :>
             TextFile(".env.local",
                      << EnvLine("assign", ServerTokenKey, "old-server") >>, TRUE)
      [] sample = "commented" ->
           EnvLocalPath :>
             TextFile(".env.local",
                      << UserEnvLine,
                         EnvLine("comment", "# ROLLBAR_PROJECT_ACCESS_SERVER_TOKEN=", "") >>,
                      TRUE)
      [] sample = "version" ->
           EnvLocalPath :>
             TextFile(".env.local",
                      << EnvLine("assign", CodeVersionKey, "0.9.0") >>, TRUE)

GitignoreSamples == {"none", "plain", "pattern", "listed", "example"}

GitignoreFiles(sample) ==
    CASE sample = "none" -> EmptyMap
      [] sample = "plain" ->
           GitignorePath :>
             TextFile(".gitignore", << EnvLine("entry", "node_modules", "") >>, TRUE)
      [] sample = "pattern" ->
           GitignorePath :>
             TextFile(".gitignore",
                      << EnvLine("entry", "node_modules", ""),
                         EnvLine("entry", ".env*.local", "") >>, TRUE)
      [] sample = "listed" ->
           GitignorePath :>
             TextFile(".gitignore",
                      << EnvLine("entry", ".env.local", ""),
                         EnvLine("entry", "node_modules", "") >>, FALSE)
      [] sample = "example" ->
           GitignorePath :>
             TextFile(".gitignore",
                      << EnvLine("entry", "!.env.local.example", "") >>, TRUE)

LockSamples == {"npm", "yarn", "pnpm"}

LockFiles(sample) ==
    CASE sample = "npm" -> EmptyMap
      [] sample = "yarn" -> File(Root, "yarn", "lock") :> UserFile
      [] sample = "pnpm" -> (File(Root, "pnpm-lock", "yaml") :> UserFile)
                            @@ (File(Root, "yarn", "lock") :> UserFile)

\* the directory layouts: every one holds the parents of its directories
DirLayouts ==
    { {},
      {<<"app">>},
      {<<"pages">>},
      {<<"app">>, <<"pages">>},
      {<<"src">>},
      {<<"src">>, <<"src", "app">>},
      {<<"src">>, <<"src", "pages">>},
      {<<"src">>, <<"src", "app">>, <<"src", "pages">>},
      {<<"app">>, <<"src">>, <<"src", "pages">>} }

InstrumentationSamples == {"none", "root.ts", "root.js", "src.ts", "src.js"}

InstrumentationFiles(sample) ==
    CASE sample = "none" -> EmptyMap
      [] sample = "root.ts" -> File(Root, "instrumentation", "ts") :> UserFile
      [] sample = "root.js" -> File(Root, "instrumentation", "js") :> UserFile
      [] sample = "src.ts" -> File(<<"src">>, "instrumentation", "ts") :> UserFile
      [] sample = "src.js" -> File(<<"src">>, "instrumentation", "js") :> UserFile

\* files of the user's own in the places the wizard generates files
ExtraSamples ==
    { "none", "_error.js", "global-error.tsx", "layout.js", "upload-sourcemaps",
      "rollbar-example-page", "rollbar.config" }

ExtraFiles(sample, ds) ==
    CASE sample = "none" -> EmptyMap
      [] sample = "_error.js" -> File(pagesLocation(ds), "_error", "js") :> UserFile
      [] sample = "global-error.tsx" ->
           File(getMaybeAppDirLocation(ds), "global-error", "tsx") :> UserFile
      [] sample = "layout.js" ->
           File(getMaybeAppDirLocation(ds), "layout", "js") :> UserFile
      [] sample = "upload-sourcemaps" ->
           (File(<<"scripts">>, "upload-sourcemaps", "ts") :> UserFile)
           @@ (File(<<"scripts">>, "upload-sourcemaps", "js") :> UserFile)
      [] sample = "rollbar-example-page" ->
           IF getMaybeAppDirLocation(ds) # <<>>
             THEN (File(getMaybeAppDirLocation(ds) \o <<"rollbar-example-page">>,
                        "page", "tsx") :> UserFile)
                  @@ (File(getMaybeAppDirLocation(ds) \o <<"rollbar-example-page">>,
                           "page", "jsx") :> UserFile)
             ELSE (File(pagesLocation(ds), "rollbar-example-page", "tsx") :> UserFile)
                  @@ (File(pagesLocation(ds), "rollbar-example-page", "jsx") :> UserFile)
      [] sample = "rollbar.config" ->
           (File(Root, "rollbar.server.config", "ts") :> UserFile)
           @@ (File(Root, "rollbar.server.config", "js") :> UserFile)

\* whether the layout's directories can hold the sample's files
ExtraFits(sample, ds) ==
    CASE sample = "_error.js" -> pagesLocation(ds) # <<>>
      [] sample \in {"global-error.tsx", "layout.js"} -> getMaybeAppDirLocation(ds) # <<>>
      [] sample = "rollbar-example-page" ->
           getMaybeAppDirLocation(ds) # <<>> \/ pagesLocation(ds) # <<>>
      [] OTHER -> TRUE

InstrumentationFits(sample, ds) ==
    sample \in {"src.ts", "src.js"} => <<"src">> \in ds

Layout(ds, tsconfig, instrumentation, extra, nextConfig, package, envFile, gitignore, lock) ==
    [dirs |-> ds, tsconfig |-> tsconfig, instrumentation |-> instrumentation,
     extra |-> extra, nextConfig |-> nextConfig, package |-> package,
     envFile |-> envFile, gitignore |-> gitignore, lock |-> lock]

LayoutFiles(l) ==
    NextConfigFiles(l.nextConfig) @@ PackageFiles(l.package) @@ TsconfigFiles(l.tsconfig)
    @@ EnvFiles(l.envFile) @@ GitignoreFiles(l.gitignore) @@ LockFiles(l.lock)
    @@ InstrumentationFiles(l.instrumentation) @@ ExtraFiles(l.extra, l.dirs)

LayoutDirs(l) ==
    l.dirs \cup (IF l.extra = "upload-sourcemaps" THEN {<<"scripts">>} ELSE {})
           \cup (IF l.extra = "rollbar-example-page" /\ getMaybeAppDirLocation(l.dirs) # <<>>
                   THEN {getMaybeAppDirLocation(l.dirs) \o <<"rollbar-example-page">>}
                   ELSE {})

\* a fresh Next.js project in each directory layout, with and without TypeScript
BaseLayouts ==
    { Layout(ds, ts, "none", "none", "none", "next", "none", "plain", "npm") :
        ds \in DirLayouts, ts \in {"none", "plain"} }

\* the base layouts on which the features that do not depend on the
\* directories are varied
PrimaryLayouts ==
    { l \in BaseLayouts :
        \/ l.dirs = {<<"app">>} /\ l.tsconfig = "plain"
        \/ l.dirs = {<<"src">>, <<"src", "pages">>} /\ l.tsconfig = "none" }

\* every layout that differs from a base layout in one feature
Layouts ==
    BaseLayouts
    \cup { [l EXCEPT !.instrumentation = v] :
             l \in { b \in BaseLayouts : b.tsconfig = "plain" },
             v \in InstrumentationSamples }
    \cup { [l EXCEPT !.extra = v] :
             l \in { b \in BaseLayouts : b.tsconfig = "none" }, v \in ExtraSamples }
    \cup { [l EXCEPT !.tsconfig = v] : l \in PrimaryLayouts, v \in TsconfigSamples }
    \cup { [l EXCEPT !.nextConfig = v] : l \in PrimaryLayouts, v \in NextConfigSamples }
    \cup { [l EXCEPT !.package = v] : l \in PrimaryLayouts, v \in PackageSamples }
    \cup { [l EXCEPT !.envFile = v] : l \in PrimaryLayouts, v \in EnvSamples }
    \cup { [l EXCEPT !.gitignore = v] : l \in PrimaryLayouts, v \in GitignoreSamples }
    \cup { [l EXCEPT !.lock = v] : l \in PrimaryLayouts, v \in LockSamples }

ValidLayouts ==
    { l \in Layouts : /\ InstrumentationFits(l.instrumentation, l.dirs)
                      /\ ExtraFits(l.extra, l.dirs) }

-----------------------------------------------------------------------------
(* The people and the command lines *)

\* the choices of the person answering the prompts: routerBoth is the answer
\* to "Which router are you primarily using?", routerNone the answer to
\* "Which Next.js router are you using?"
Person(isVercel, enableDeployment, enableSourcemaps, enableReplay, routerBoth, routerNone, example) ==
    [isVercel |-> isVercel, enableDeployment |-> enableDeployment,
     enableSourcemaps |-> enableSourcemaps, enableReplay |-> enableReplay,
     routerBoth |-> routerBoth, routerNone |-> routerNone, createExamplePage |-> example]

People ==
    { Person(FALSE, TRUE, TRUE, TRUE, "app", "app", FALSE),
      Person(TRUE, TRUE, TRUE, FALSE, "pages", "pages", TRUE),
      Person(FALSE, FALSE, FALSE, TRUE, "both", "pages", TRUE) }

Nobody == Person(FALSE, TRUE, TRUE, TRUE, "app", "app", FALSE)

\* the options commander passes to the action of a command
Options(accessToken, environment, skipInstall, yes) ==
    [accessToken |-> accessToken, environment |-> environment,
     skipInstall |-> skipInstall, yes |-> yes]

\* the options with --typescript given: commander adds the property typescript
WithTypescript(o) ==
    [f \in DOMAIN o \cup {"typescript"} |-> IF f = "typescript" THEN TRUE ELSE o[f]]

\* runNextjsWizard({}) of the auto-detecting root command
NoOptions == Options(Undefined, Undefined, FALSE, FALSE)

ProcessEnv(server, client, codeVersion) ==
    [server |-> server, client |-> client, codeVersion |-> codeVersion]

NoProcessEnv == ProcessEnv(Undefined, Undefined, Undefined)

Invocation(c, o, e, u) == [cmd |-> c, options |-> o, env |-> e, user |-> u]

Invocations ==
    { Invocation("auto", NoOptions, NoProcessEnv, Nobody),
      Invocation("nextjs", Options(Undefined, "production", FALSE, FALSE), NoProcessEnv,
                 Person(FALSE, TRUE, TRUE, TRUE, "app", "app", FALSE)),
      Invocation("nextjs", Options(Undefined, "staging", TRUE, FALSE), NoProcessEnv,
                 Person(TRUE, FALSE, TRUE, FALSE, "pages", "pages", TRUE)),
      Invocation("nextjs", Options(Undefined, "production", FALSE, FALSE), NoProcessEnv,
                 Person(FALSE, FALSE, FALSE, TRUE, "both", "pages", TRUE)),
      Invocation("nextjs", Options("cli-token", "production", FALSE, TRUE),
                 NoProcessEnv, Nobody),
      Invocation("nextjs", Options(Undefined, "production", TRUE, TRUE),
                 NoProcessEnv, Nobody),
      Invocation("nextjs", Options(Undefined, "production", TRUE, TRUE),
                 ProcessEnv("env-server", "env-client", "2.0.0"), Nobody),
      Invocation("nextjs", WithTypescript(Options("cli-token", "production", TRUE, TRUE)),
                 NoProcessEnv, Nobody),
      Invocation("nuxtjs", NoOptions, NoProcessEnv, Nobody),
      Invocation("svelte", NoOptions, NoProcessEnv, Nobody) }

NoDraft == [prompt |-> ""]
NoPrev == [ok |-> FALSE]

\* the listeners of a process: per signal, the handlers in the order of
\* their registration
NoListeners == [SIGINT |-> <<>>, SIGTERM |-> <<>>]

\* a process.removeAllListeners that removes nothing
keepListeners(ls, sig) == ls

\* process.removeAllListeners(sig)
removeAllListeners(ls, sig) == [ls EXCEPT ![sig] = <<>>]

\* process.on(sig, handler)
on(ls, sig, handler) == [ls EXCEPT ![sig] = Append(@, handler)]

setupExitHandlers(ls) ==
    LET afterSIGINT == on(removeAllListeners(ls, "SIGINT"), "SIGINT", "handleSIGINT")
    IN  on(removeAllListeners(afterSIGINT, "SIGTERM"), "SIGTERM", "handleSIGTERM")

\* the state in which a process with the listeners ls starts the CLI
InitWith(ls) ==
    \E l \in ValidLayouts, inv \in Invocations :
        /\ files = LayoutFiles(l)
        /\ dirs = LayoutDirs(l)
        /\ procEnv = inv.env
        /\ listeners = ls
        /\ user = inv.user
        /\ cmd = inv.cmd
        /\ options = inv.options
        /\ pc = "cli"
        /\ projectInfo = NoInfo
        /\ draft = NoDraft
        /\ config = NoConfig
        /\ exitCode = NotExited
        /\ exitReason = ""
        /\ run = 1
        /\ trace = <<>>
        /\ before = LayoutFiles(l)
        /\ prev = NoPrev

\* the node process of the CLI starts without signal listeners
Init == InitWith(NoListeners)

-----------------------------------------------------------------------------
(* The CLI entry (bin/rollbar-wizard.js) *)

\* process.exit(code), or the end of the program
Exit(code, reason) ==
    /\ pc' = "done"
    /\ exitCode' = code
    /\ exitReason' = reason

Note(phase, op, level) ==
    [phase |-> phase, op |-> op, path |-> NoPath, level |-> level, existed |-> FALSE]

\* program.command('nextjs').action
NextjsCommand ==
    /\ pc = "cli"
    /\ cmd = "nextjs"
    /\ IF ~isNextjsProject(files)
         THEN /\ Exit(1, "not-a-nextjs-project")
              /\ trace' = trace \o <<Note("cli", "log", "error")>>
         ELSE /\ pc' = "runNextjsWizard"
              /\ UNCHANGED <<exitCode, exitReason, trace>>
    /\ UNCHANGED <<files, dirs, procEnv, listeners, user, cmd, options, projectInfo, draft, config,
                   run, before, prev>>

\* program.command('nuxtjs').action
NuxtjsCommand ==
    /\ pc = "cli"
    /\ cmd = "nuxtjs"
    /\ Exit(1, "not-implemented")
    /\ trace' = trace \o <<Note("cli", "log", "error")>>
    /\ UNCHANGED <<files, dirs, procEnv, listeners, user, cmd, options, projectInfo, draft, config,
                   run, before, prev>>

\* program.command('svelte').action
SvelteCommand ==
    /\ pc = "cli"
    /\ cmd = "svelte"
    /\ Exit(1, "not-implemented")
    /\ trace' = trace \o <<Note("cli", "log", "error")>>
    /\ UNCHANGED <<files, dirs, procEnv, listeners, user, cmd, options, projectInfo, draft, config,
                   run, before, prev>>

\* a variant of AutoDetect that tries Svelte before Nuxt.js
AutoDetectSvelteFirst ==
    /\ pc = "cli"
    /\ cmd = "auto"
    /\ IF isNextjsProject(files)
         THEN /\ pc' = "runNextjsWizard"
              /\ trace' = trace \o <<Note("cli", "log", "detected")>>
              /\ UNCHANGED <<exitCode, exitReason>>
         ELSE IF isSvelteProject(files)
           THEN /\ Exit(1, "svelte-detected")
                /\ trace' = trace \o <<Note("cli", "log", "warn")>>
         ELSE IF isNuxtjsProject(files)
           THEN /\ Exit(1, "nuxtjs-detected")
                /\ trace' = trace \o <<Note("cli", "log", "warn")>>
           ELSE /\ Exit(0, "not-detected")
                /\ trace' = trace \o <<Note("cli", "log", "warn")>>
    /\ UNCHANGED <<files, dirs, procEnv, listeners, user, cmd, options, projectInfo, draft, config,
                   run, before, prev>>

\* program.action: no sub-command
AutoDetect ==
    /\ pc = "cli"
    /\ cmd = "auto"
    /\ IF isNextjsProject(files)
         THEN /\ pc' = "runNextjsWizard"
              /\ trace' = trace \o <<Note("cli", "log", "detected")>>
              /\ UNCHANGED <<exitCode, exitReason>>
         ELSE IF isNuxtjsProject(files)
           THEN /\ Exit(1, "nuxtjs-detected")
                /\ trace' = trace \o <<Note("cli", "log", "warn")>>
         ELSE IF isSvelteProject(files)
           THEN /\ Exit(1, "svelte-detected")
                /\ trace' = trace \o <<Note("cli", "log", "warn")>>
           ELSE /\ Exit(0, "not-detected")
                /\ trace' = trace \o <<Note("cli", "log", "warn")>>
    /\ UNCHANGED <<files, dirs, procEnv, listeners, user, cmd, options, projectInfo, draft, config,
                   run, before, prev>>

-----------------------------------------------------------------------------
(* runNextjsWizard up to the end of the configuration (wizard.ts) *)

\* `if (!packageJson) throw new Error('Could not find package.json')`
detectProjectStructureThrows(fs) == ~getPackageJson(fs).valid

detectProjectStructure(fs, ds) ==
    LET packageJson == getPackageJson(fs)
    IN  [set |-> TRUE,
         hasTypescript |-> checkHasTypescript(fs),
         hasAppRouter |-> \/ hasDirectoryPathFromRoot(ds, <<"app">>)
                          \/ hasDirectoryPathFromRoot(ds, <<"src", "app">>),
         hasPagesRouter |-> \/ hasDirectoryPathFromRoot(ds, <<"pages">>)
                            \/ hasDirectoryPathFromRoot(ds, <<"src", "pages">>),
         packageManager |-> detectPackageManager(fs),
         nextVersion |-> IF Truthy(packageJson.dependencies, "next")
                           THEN packageJson.dependencies["next"]
                         ELSE IF Truthy(packageJson.devDependencies, "next")
                           THEN packageJson.devDependencies["next"]
                         ELSE "unknown"]

\* a || b on optional strings
OrElse(a, b) == IF a # Undefined THEN a ELSE b

Config(serverAccessToken, clientAccessToken, environment, enableDeployment, codeVersion, enableSourcemaps, enableReplay, routerType, example, isVercel, vercelClientTokenEnvVar, vercelServerTokenEnvVar) ==
    [set |-> TRUE, accessToken |-> serverAccessToken,
     clientAccessToken |-> clientAccessToken, serverAccessToken |-> serverAccessToken,
     environment |-> environment, enableDeployment |-> enableDeployment,
     codeVersion |-> codeVersion, enableSourcemaps |-> enableSourcemaps,
     enableReplay |-> enableReplay, routerType |-> routerType,
     createExamplePage |-> example, isVercel |-> isVercel,
     vercelClientTokenEnvVar |-> vercelClientTokenEnvVar,
     vercelServerTokenEnvVar |-> vercelServerTokenEnvVar]

\* the configuration of the non-interactive mode
defaultConfig(opts, env, info) ==
    LET routerType == IF info.hasAppRouter /\ info.hasPagesRouter THEN "both"
                      ELSE IF info.hasPagesRouter THEN "pages"
                      ELSE "app"
        serverToken == OrElse(opts.accessToken, OrElse(env.server, ""))
        clientToken == OrElse(env.client, serverToken)
    IN  Config(serverToken, clientToken, OrElse(opts.environment, "production"), TRUE,
               env.codeVersion, TRUE, TRUE, routerType, FALSE, FALSE, Undefined, Undefined)

\* the test before "Step 1"
tokensMissing(cfg) ==
    ~cfg.isVercel /\ (cfg.serverAccessToken = "" \/ cfg.clientAccessToken = "")

\* the locals of gatherConfiguration before its first prompt
FirstDraft ==
    [prompt |-> "isVercel", isVercel |-> FALSE,
     vercelClientTokenEnvVar |-> Undefined, vercelServerTokenEnvVar |-> Undefined,
     serverAccessToken |-> "", clientAccessToken |-> "", environment |-> "",
     enableDeployment |-> FALSE, codeVersion |-> Undefined, enableSourcemaps |-> FALSE,
     enableReplay |-> FALSE, routerType |-> "", createExamplePage |-> FALSE]

\* the prompts of clack.text: their validate calls checkForExitCommand
TextPrompts ==
    {"vercelClientTokenEnvVar", "vercelServerTokenEnvVar", "serverAccessToken",
     "clientAccessToken", "environment", "codeVersion"}

\* the text prompts whose validate rejects the empty input
RequiredPrompts == TextPrompts \ {"environment"}

\* the value the person submits at a prompt, when it is accepted
answerOf(prompt, u, opts, info) ==
    CASE prompt = "isVercel" -> u.isVercel
      [] prompt = "vercelClientTokenEnvVar" -> "MY_ROLLBAR_CLIENT_TOKEN"
      [] prompt = "vercelServerTokenEnvVar" -> "MY_ROLLBAR_SERVER_TOKEN"
      [] prompt = "serverAccessToken" -> "post_server_item_1"
      [] prompt = "clientAccessToken" -> "post_client_item_1"
      [] prompt = "environment" -> OrElse(opts.environment, "production")
      [] prompt = "enableDeployment" -> u.enableDeployment
      [] prompt = "codeVersion" -> "1.2.3"
      [] prompt = "enableSourcemaps" -> u.enableSourcemaps
      [] prompt = "enableReplay" -> u.enableReplay
      [] prompt = "routerType" ->
           IF info.hasAppRouter /\ info.hasPagesRouter THEN u.routerBoth ELSE u.routerNone
      [] prompt = "createExamplePage" -> u.createExamplePage

\* the prompt gatherConfiguration issues after prompt was answered, d being
\* its locals after the answer; "return" when it was the last one
nextPrompt(prompt, d, info) ==
    CASE prompt = "isVercel" ->
           IF d.isVercel THEN "vercelClientTokenEnvVar" ELSE "serverAccessToken"
      [] prompt = "vercelClientTokenEnvVar" -> "vercelServerTokenEnvVar"
      [] prompt = "vercelServerTokenEnvVar" -> "environment"
      [] prompt = "serverAccessToken" -> "clientAccessToken"
      [] prompt = "clientAccessToken" -> "environment"
      [] prompt = "environment" ->
           IF d.isVercel THEN "enableSourcemaps" ELSE "enableDeployment"
      [] prompt = "enableDeployment" ->
           IF d.enableDeployment THEN "codeVersion" ELSE "enableSourcemaps"
      [] prompt = "codeVersion" -> "enableSourcemaps"
      [] prompt = "enableSourcemaps" -> "enableReplay"
      [] prompt = "enableReplay" ->
           IF info.hasAppRouter = info.hasPagesRouter THEN "routerType"
           ELSE "createExamplePage"
      [] prompt = "routerType" -> "createExamplePage"
      [] prompt = "createExamplePage" -> "return"

\* the value gatherConfiguration returns
gatheredConfig(d, info) ==
    Config(d.serverAccessToken, d.clientAccessToken, d.environment, d.enableDeployment,
           d.codeVersion, d.enableSourcemaps, d.enableReplay,
           IF info.hasAppRouter = info.hasPagesRouter THEN d.routerType
           ELSE IF info.hasAppRouter THEN "app" ELSE "pages",
           d.createExamplePage, d.isVercel,
           d.vercelClientTokenEnvVar, d.vercelServerTokenEnvVar)

\* setupExitHandlers, clack.intro and detectProjectStructure
DetectProjectStructure ==
    /\ pc = "runNextjsWizard"
    /\ IF detectProjectStructureThrows(files)
         THEN /\ Exit(1, "setup-failed")
              /\ trace' = trace \o <<Note("detectProjectStructure", "log", "error")>>
              /\ UNCHANGED <<projectInfo, draft>>
         ELSE /\ projectInfo' = detectProjectStructure(files, dirs)
              /\ pc' = IF options.yes THEN "defaults" ELSE "gatherConfiguration"
              /\ draft' = IF options.yes THEN NoDraft ELSE FirstDraft
              /\ trace' = trace \o <<Note("detectProjectStructure", "log", "info")>>
              /\ UNCHANGED <<exitCode, exitReason>>
    /\ listeners' = setupExitHandlers(listeners)
    /\ UNCHANGED <<files, dirs, procEnv, user, cmd, options, config, run, before, prev>>

\* the statements after the configuration is known, up to "Step 1"; asked
\* is what the last prompt added to the trace
Configured(cfg, asked) ==
    /\ config' = cfg
    /\ IF tokensMissing(cfg)
         THEN /\ Exit(1, "tokens-missing")
              /\ trace' = trace \o asked \o <<Note("configuration", "log", "error")>>
         ELSE /\ pc' = "installRollbar"
              /\ trace' = trace \o asked \o <<Note("configuration", "done", "")>>
              /\ UNCHANGED <<exitCode, exitReason>>

\* the else branch of `if (!options.yes)`
UseDefaults ==
    /\ pc = "defaults"
    /\ Configured(defaultConfig(options, procEnv, projectInfo), <<>>)
    /\ UNCHANGED <<files, dirs, procEnv, listeners, user, cmd, options, projectInfo, draft,
                   run, before, prev>>

\* the person submits a value the prompt accepts
GatherAnswer ==
    /\ pc = "gatherConfiguration"
    /\ LET answered == [draft EXCEPT ![draft.prompt] =
                                        answerOf(draft.prompt, user, options, projectInfo)]
           next == nextPrompt(draft.prompt, answered, projectInfo)
           asked == Event("gatherConfiguration", Prompt(draft.prompt), FALSE)
       IN  IF next = "return"
             THEN /\ draft' = NoDraft
                  /\ Configured(gatheredConfig(answered, projectInfo), <<asked>>)
             ELSE /\ draft' = [answered EXCEPT !.prompt = next]
                  /\ trace' = trace \o <<asked>>
                  /\ UNCHANGED <<pc, config, exitCode, exitReason>>
    /\ UNCHANGED <<files, dirs, procEnv, listeners, user, cmd, options, projectInfo, run, before, prev>>

\* a variant of GatherCancel in which gatherConfiguration hands back the
\* answers given so far before the process ends
GatherCancelReturns ==
    /\ pc = "gatherConfiguration"
    /\ Exit(1, "prompt-cancelled")
    /\ config' = gatheredConfig(draft, projectInfo)
    /\ trace' = trace \o <<Event("gatherConfiguration", Prompt(draft.prompt), FALSE)>>
    /\ UNCHANGED <<files, dirs, procEnv, listeners, user, cmd, options, projectInfo, draft,
                   run, before, prev>>

\* the person cancels the prompt (Ctrl+C or Escape inside clack): abortIfCancelled
GatherCancel ==
    /\ pc = "gatherConfiguration"
    /\ Exit(1, "prompt-cancelled")
    /\ trace' = trace \o <<Event("gatherConfiguration", Prompt(draft.prompt), FALSE)>>
    /\ UNCHANGED <<files, dirs, procEnv, listeners, user, cmd, options, projectInfo, draft, config,
                   run, before, prev>>

\* the person types 'exit' at a text prompt: checkForExitCommand
GatherExit ==
    /\ pc = "gatherConfiguration"
    /\ draft.prompt \in TextPrompts
    /\ Exit(0, "exit-command")
    /\ trace' = trace \o <<Event("gatherConfiguration", Prompt(draft.prompt), FALSE)>>
    /\ UNCHANGED <<files, dirs, procEnv, listeners, user, cmd, options, projectInfo, draft, config,
                   run, before, prev>>

\* the person submits a value validate rejects: the prompt stays open
GatherInvalid ==
    /\ pc = "gatherConfiguration"
    /\ draft.prompt \in RequiredPrompts
    /\ UNCHANGED vars

-----------------------------------------------------------------------------
(* The steps of runNextjsWizard (wizard.ts) *)

\* package.json after `<pm> add pkg@range` succeeded
withDependency(pj, pkg, range) ==
    [pj EXCEPT !.dependencies = (pkg :> range) @@ @]

\* the effects of installPackage; ok is whether the execSync succeeds
installPackage(fs, pkg, range, skipInstall, ok) ==
    IF skipInstall THEN << Log("info", NoPath) >>
    ELSE IF ok
      THEN << Log("info", NoPath),
              Exec("install", IF getPackageJson(fs).valid
                                THEN withDependency(getPackageJson(fs), pkg, range)
                                ELSE NoContent),
              Log("success", NoPath) >>
      ELSE << Log("info", NoPath), Exec("install-failed", NoContent), Log("error", NoPath) >>

\* a variant of nextPhase without the tests of enableSourcemaps
nextPhaseUnguarded(phase, cfg) ==
    CASE phase = "installRollbar" -> "installRollbarReact"
      [] phase = "installRollbarReact" -> "createConfigFiles"
      [] phase = "createConfigFiles" -> "setupInstrumentationHook"
      [] phase = "setupInstrumentationHook" -> "setupErrorPages"
      [] phase = "setupErrorPages" -> "setupEnvironmentVariables"
      [] phase = "setupEnvironmentVariables" -> "setupNextjsConfig"
      [] phase = "setupNextjsConfig" -> "setupSourceMapUploadScript"
      [] phase = "setupSourceMapUploadScript" ->
           IF cfg.createExamplePage THEN "createExamplePage" ELSE "outro"
      [] phase = "createExamplePage" -> "outro"

\* the phase that follows phase in runNextjsWizard
nextPhase(phase, cfg) ==
    LET afterSourcemaps == IF cfg.createExamplePage THEN "createExamplePage" ELSE "outro"
    IN  CASE phase = "installRollbar" -> "installRollbarReact"
          [] phase = "installRollbarReact" -> "createConfigFiles"
          [] phase = "createConfigFiles" -> "setupInstrumentationHook"
          [] phase = "setupInstrumentationHook" -> "setupErrorPages"
          [] phase = "setupErrorPages" -> "setupEnvironmentVariables"
          [] phase = "setupEnvironmentVariables" ->
               IF cfg.enableSourcemaps THEN "setupNextjsConfig" ELSE afterSourcemaps
          [] phase = "setupNextjsConfig" ->
               IF cfg.enableSourcemaps THEN "setupSourceMapUploadScript"
               ELSE afterSourcemaps
          [] phase = "setupSourceMapUploadScript" -> afterSourcemaps
          [] phase = "createExamplePage" -> "outro"

\* the trace entry of a write that threw
WriteFailed(phase, step) ==
    [phase |-> phase, op |-> "write-failed", path |-> step.path, level |-> "",
     existed |-> FALSE]

(* A handler runs: its effects happen in order, and one of its writes may   *)
(* throw (f is its position, 0 when none does).  An exception leaves the    *)
(* handler and reaches the catch of runNextjsWizard, which aborts; a write  *)
(* inside a try block of the handler only warns.  thrown is whether the     *)
(* handler throws after its last effect.                                    *)
Perform(phase, steps, thrown, next) ==
    \E f \in {0} \cup WritePositions(steps) :
        LET failed == f # 0
            done == IF failed THEN SubSeq(steps, 1, f - 1) ELSE steps
            caught == failed /\ steps[f].caught
            failure == IF failed THEN <<WriteFailed(phase, steps[f])>> ELSE <<>>
            message == IF caught THEN <<Note(phase, "log", "warn")>>
                       ELSE IF failed \/ thrown THEN <<Note("catch", "log", "error")>>
                       ELSE <<>>
        IN  /\ files' = filesAfter(files, done)
            /\ dirs' = dirsAfter(dirs, done)
            /\ trace' = trace \o <<Note(phase, "start", "")>>
                              \o eventsOf(files, done, phase) \o failure \o message
            /\ IF (failed /\ ~caught) \/ (~failed /\ thrown)
                 THEN Exit(1, "setup-failed")
                 ELSE /\ pc' = next
                      /\ UNCHANGED <<exitCode, exitReason>>

InstallRollbar ==
    /\ pc = "installRollbar"
    /\ \E ok \in (IF options.skipInstall THEN {TRUE} ELSE BOOLEAN) :
          Perform("installPackages",
                  installPackage(files, "rollbar", "^3.0.0-rc.1", options.skipInstall, ok),
                  ~ok, nextPhase("installRollbar", config))
    /\ UNCHANGED <<procEnv, listeners, user, cmd, options, projectInfo, draft, config,
                   run, before, prev>>

InstallRollbarReact ==
    /\ pc = "installRollbarReact"
    /\ \E ok \in (IF options.skipInstall THEN {TRUE} ELSE BOOLEAN) :
          Perform("installPackages",
                  installPackage(files, "@rollbar/react", InstalledVersion,
                                 options.skipInstall, ok),
                  ~ok, nextPhase("installRollbarReact", config))
    /\ UNCHANGED <<procEnv, listeners, user, cmd, options, projectInfo, draft, config,
                   run, before, prev>>

CreateConfigFiles ==
    /\ pc = "createConfigFiles"
    /\ Perform("createConfigFiles", createConfigFiles(config, projectInfo), FALSE,
               nextPhase("createConfigFiles", config))
    /\ UNCHANGED <<procEnv, listeners, user, cmd, options, projectInfo, draft, config,
                   run, before, prev>>

SetupInstrumentationHook ==
    /\ pc = "setupInstrumentationHook"
    /\ Perform("setupInstrumentationHook",
               setupInstrumentationHook(files, dirs, projectInfo), FALSE,
               IF instrumentationHookLocation(files, dirs) = "does-not-exist"
                 THEN nextPhase("setupInstrumentationHook", config)
                 ELSE "confirmInstrumentation")
    /\ UNCHANGED <<procEnv, listeners, user, cmd, options, projectInfo, draft, config,
                   run, before, prev>>

\* a variant of ConfirmInstrumentation that undoes the writes of the run
\* when the person declines
ConfirmInstrumentationRollsBack ==
    /\ pc = "confirmInstrumentation"
    /\ \E answer \in {"yes", "no", "cancel"} :
          IF answer = "yes"
            THEN /\ pc' = nextPhase("setupInstrumentationHook", config)
                 /\ files' = files
                 /\ UNCHANGED <<exitCode, exitReason>>
            ELSE /\ Exit(1, IF answer = "no" THEN "not-confirmed" ELSE "prompt-cancelled")
                 /\ files' = before
    /\ UNCHANGED <<dirs, procEnv, listeners, user, cmd, options, projectInfo, draft, config,
                   run, trace, before, prev>>

\* the answer to "Did you add the code to your instrumentation file?"
ConfirmInstrumentation ==
    /\ pc = "confirmInstrumentation"
    /\ \E answer \in {"yes", "no", "cancel"} :
          IF answer = "yes"
            THEN /\ pc' = nextPhase("setupInstrumentationHook", config)
                 /\ UNCHANGED <<exitCode, exitReason>>
            ELSE Exit(1, IF answer = "no" THEN "not-confirmed" ELSE "prompt-cancelled")
    /\ UNCHANGED <<files, dirs, procEnv, listeners, user, cmd, options, projectInfo, draft, config,
                   run, trace, before, prev>>

SetupErrorPages ==
    /\ pc = "setupErrorPages"
    /\ Perform("setupErrorPages",
               setupErrorPages(files, dirs, projectInfo, config.routerType), FALSE,
               nextPhase("setupErrorPages", config))
    /\ UNCHANGED <<procEnv, listeners, user, cmd, options, projectInfo, draft, config,
                   run, before, prev>>

SetupEnvironmentVariables ==
    /\ pc = "setupEnvironmentVariables"
    /\ Perform("setupEnvironmentVariables", setupEnvironmentVariables(files, config), FALSE,
               nextPhase("setupEnvironmentVariables", config))
    /\ UNCHANGED <<procEnv, listeners, user, cmd, options, projectInfo, draft, config,
                   run, before, prev>>

SetupNextjsConfig ==
    /\ pc = "setupNextjsConfig"
    /\ Perform("setupNextjsConfig", setupNextjsConfig(files, config, projectInfo), FALSE,
               nextPhase("setupNextjsConfig", config))
    /\ UNCHANGED <<procEnv, listeners, user, cmd, options, projectInfo, draft, config,
                   run, before, prev>>

SetupSourceMapUploadScript ==
    /\ pc = "setupSourceMapUploadScript"
    /\ \E installOk \in BOOLEAN :
          Perform("setupSourceMapUploadScript",
                  setupSourceMapUploadScript(files, dirs, config, projectInfo, installOk),
                  FALSE, nextPhase("setupSourceMapUploadScript", config))
    /\ UNCHANGED <<procEnv, listeners, user, cmd, options, projectInfo, draft, config,
                   run, before, prev>>

CreateExamplePage ==
    /\ pc = "createExamplePage"
    /\ Perform("createExamplePage", createExamplePage(files, dirs, config, projectInfo),
               FALSE, nextPhase("createExamplePage", config))
    /\ UNCHANGED <<procEnv, listeners, user, cmd, options, projectInfo, draft, config,
                   run, before, prev>>

\* the summary (clack.outro); the process then ends by itself
Outro ==
    /\ pc = "outro"
    /\ Exit(0, "success")
    /\ trace' = trace \o <<Note("outro", "log", "success")>>
    /\ UNCHANGED <<files, dirs, procEnv, listeners, user, cmd, options, projectInfo, draft, config,
                   run, before, prev>>

\* the positions at which the handlers of setupExitHandlers are installed
\* and the process has not ended
Running ==
    pc \notin {"cli", "runNextjsWizard", "done"}

\* handleSIGINT, handleSIGTERM
Signal ==
    /\ Running
    /\ \E sig \in {"SIGINT", "SIGTERM"} : Exit(0, sig)
    /\ UNCHANGED <<files, dirs, procEnv, listeners, user, cmd, options, projectInfo, draft, config,
                   run, trace, before, prev>>

\* the person runs the same command line again after a successful run
Rerun ==
    /\ pc = "done"
    /\ exitReason = "success"
    /\ run < MaxRuns
    /\ run' = run + 1
    /\ pc' = "cli"
    /\ projectInfo' = NoInfo
    /\ draft' = NoDraft
    /\ config' = NoConfig
    /\ exitCode' = NotExited
    /\ exitReason' = ""
    /\ trace' = <<>>
    /\ before' = files
    /\ prev' = [ok |-> TRUE, config |-> config, projectInfo |-> projectInfo,
                trace |-> trace]
    /\ listeners' = NoListeners
    /\ UNCHANGED <<files, dirs, procEnv, user, cmd, options>>

Next ==
    \/ NextjsCommand
    \/ NuxtjsCommand
    \/ SvelteCommand
    \/ AutoDetect
    \/ DetectProjectStructure
    \/ UseDefaults
    \/ GatherAnswer
    \/ GatherCancel
    \/ GatherExit
    \/ GatherInvalid
    \/ InstallRollbar
    \/ InstallRollbarReact
    \/ CreateConfigFiles
    \/ SetupInstrumentationHook
    \/ ConfirmInstrumentation
    \/ SetupErrorPages
    \/ SetupEnvironmentVariables
    \/ SetupNextjsConfig
    \/ SetupSourceMapUploadScript
    \/ CreateExamplePage
    \/ Outro
    \/ Signal
    \/ Rerun

Spec == Init /\ [][Next]_vars

-----------------------------------------------------------------------------
(* Properties *)

\* the phases of runNextjsWizard that change the project's files
MutationPhases ==
    {"createConfigFiles", "setupInstrumentationHook", "setupErrorPages",
     "setupEnvironmentVariables", "setupNextjsConfig", "setupSourceMapUploadScript",
     "createExamplePage"}

\* the entries of a trace that are writes of a mutation phase
PhaseWrites(tr) ==
    {i \in DOMAIN tr : tr[i].op = "write" /\ tr[i].phase \in MutationPhases}

FailedWrites(tr) == {i \in DOMAIN tr : tr[i].op = "write-failed"}

\* the current invocation is a second one, with the fingerprint and the
\* Config of the one before it
SameInputs ==
    /\ run > 1
    /\ config # NoConfig
    /\ projectInfo = prev.projectInfo
    /\ config = prev.config

OwnedNames == {"rollbar.server.config", "rollbar.edge.config", "rollbar.client.config"}

\* the files the wizard patches: it reads them and writes them back
PatchedPaths == {PackageJsonPath, TsconfigPath, EnvLocalPath, GitignorePath}

(* C2: a write that creates a file (any write but the patches of            *)
(* package.json, tsconfig.json, .env.local and .gitignore) never goes to a  *)
(* path at which a file exists, unless the file is one of the three         *)
(* rollbar.*.config files.                                                  *)
C2_NoOverwrite ==
    \A i \in DOMAIN trace :
        (/\ trace[i].op = "write"
         /\ trace[i].existed
         /\ trace[i].path \notin PatchedPaths)
        => trace[i].path.name \in OwnedNames

\* the next.config file setupNextjsConfig reads, when there is one
existingNextConfigPath(fs) ==
    IF existsSync(fs, nextConfigJsPath) THEN nextConfigJsPath
    ELSE IF existsSync(fs, nextConfigMjsPath) THEN nextConfigMjsPath
    ELSE IF existsSync(fs, nextConfigTsPath) THEN nextConfigTsPath
    ELSE NoPath

\* setupNextjsConfig has run in this invocation
NextjsConfigDone ==
    /\ \E i \in DOMAIN trace : trace[i].phase = "setupNextjsConfig"
    /\ pc # "setupNextjsConfig"

(* C3: when source maps are enabled and the existing next.config is         *)
(* non-trivial and does not mention productionBrowserSourceMaps,            *)
(* setupNextjsConfig warns and leaves the file as it was.                   *)
C3_NonTrivialConfigKept ==
    LET p == existingNextConfigPath(before)
    IN  (/\ NextjsConfigDone
         /\ config.enableSourcemaps
         /\ p # NoPath
         /\ ~isEmptyConfig(before[p])
         /\ ~configIncludes(before[p], PBSM))
        => /\ files[p] = before[p]
           /\ \E i \in DOMAIN trace : /\ trace[i].phase = "setupNextjsConfig"
                                      /\ trace[i].op = "log"
                                      /\ trace[i].level = "warn"

\* the process was ended by a signal
Signalled == exitReason \in {"SIGINT", "SIGTERM"}

\* an execSync of installPackage failed in this invocation
InstallFailed ==
    \E i \in DOMAIN trace : /\ trace[i].phase = "installPackages"
                            /\ trace[i].op = "exec"
                            /\ trace[i].level = "install-failed"

(* C4: when an installation of installPackage fails, the run goes on to     *)
(* createConfigFiles: it does not end (other than by a signal) before that  *)
(* phase has started.                                                       *)
C4_InstallFailureContinues ==
    (InstallFailed /\ pc = "done" /\ ~Signalled)
    => \E j \in DOMAIN trace : trace[j].phase = "createConfigFiles"

(* C5: when a write of a mutation phase fails, the run ends with exit       *)
(* status 1 and nothing of a later phase happens.                           *)
C5_WriteFailureAborts ==
    \A i \in FailedWrites(trace) :
        /\ pc = "done"
        /\ exitCode = 1
        /\ \A j \in DOMAIN trace :
              j > i => trace[j].phase \in {trace[i].phase, "catch"}

\* the run ended because a prompt of gatherConfiguration was cancelled
GatherCancelled ==
    /\ pc = "done"
    /\ exitReason = "prompt-cancelled"
    /\ draft # NoDraft

(* C6: when a prompt of gatherConfiguration is cancelled the process has    *)
(* ended with status 1, no Config has been returned, and the run has        *)
(* installed nothing, written nothing and started no phase.                 *)
C6_CancelStopsBeforeMutation ==
    GatherCancelled =>
        /\ exitCode = 1
        /\ config = NoConfig
        /\ files = before
        /\ \A i \in DOMAIN trace :
              /\ trace[i].op \notin {"write", "exec", "mkdir", "start"}
              /\ trace[i].phase \notin MutationPhases \cup {"installPackages"}

\* a prompt after the first one was cancelled
C6_Witness ==
    /\ GatherCancelled
    /\ draft.prompt = "createExamplePage"
    /\ \E i \in DOMAIN trace : trace[i].op = "prompt" /\ trace[i].level = "enableSourcemaps"

PhaseOrder ==
    << "installPackages", "createConfigFiles", "setupInstrumentationHook",
       "setupErrorPages", "setupEnvironmentVariables", "setupNextjsConfig",
       "setupSourceMapUploadScript", "createExamplePage" >>

\* the position of a phase in PhaseOrder
rank(phase) == CHOOSE n \in DOMAIN PhaseOrder : PhaseOrder[n] = phase

\* the entries of the trace that belong to a phase of PhaseOrder
PhaseNames == Range(PhaseOrder)
phaseTrace == SelectSeq(trace, LAMBDA e : e.phase \in PhaseNames)

(* C7: what the phases do appears in the fixed order, a phase other than    *)
(* the two-package installation starts once, the next.config and upload     *)
(* script phases run only with source maps enabled and the example phase    *)
(* only when the example page was requested.                                *)
C7_PhaseOrder ==
    LET done == phaseTrace
    IN  /\ \A i \in 1..(Len(done) - 1) :
              /\ rank(done[i].phase) <= rank(done[i + 1].phase)
              /\ (done[i + 1].op = "start" /\ done[i].phase = done[i + 1].phase)
                 => done[i].phase = "installPackages"
        /\ \A i \in DOMAIN done :
              /\ done[i].phase \in {"setupNextjsConfig", "setupSourceMapUploadScript"}
                    => config.enableSourcemaps
              /\ done[i].phase = "createExamplePage" => config.createExamplePage

\* a successful run in which every phase ran
C7_Witness ==
    LET done == phaseTrace
    IN  /\ exitReason = "success"
        /\ config.enableSourcemaps
        /\ config.createExamplePage
        /\ \A n \in DOMAIN PhaseOrder :
              \E i \in DOMAIN done : done[i].phase = PhaseOrder[n]

(* C8: the exit status is 0 exactly when the wizard succeeded, 'exit' was   *)
(* typed at a text prompt, or SIGINT or SIGTERM arrived; every other end    *)
(* of the process has status 1.                                             *)
C8_ExitCodes ==
    pc = "done" =>
        /\ exitCode \in {0, 1}
        /\ exitCode = 0 <=> exitReason \in {"success", "exit-command", "SIGINT", "SIGTERM"}

(* C9: with --skip-install no package manager is run: the trace of the run  *)
(* has no execSync.                                                         *)
C9_SkipInstallRunsNoInstall ==
    options.skipInstall => \A i \in DOMAIN trace : trace[i].op # "exec"

(* C10: with --yes no prompt is issued, and the run never waits for an      *)
(* answer.                                                                  *)
C10_YesNeverPrompts ==
    options.yes =>
        /\ pc \notin {"gatherConfiguration", "confirmInstrumentation"}
        /\ \A i \in DOMAIN trace : trace[i].op # "prompt"

-----------------------------------------------------------------------------
(* The `nextjs` sub-command outside a Next.js project *)

\* package.json is missing, unparseable, or names `next` in neither section
lacksNext(fs) ==
    \/ PackageJsonPath \notin DOMAIN fs
    \/ ~fs[PackageJsonPath].valid
    \/ /\ ~Truthy(fs[PackageJsonPath].dependencies, "next")
       /\ ~Truthy(fs[PackageJsonPath].devDependencies, "next")

(* C11: the `nextjs` sub-command, run where package.json is missing,        *)
(* unreadable or lacks `next` in dependencies and devDependencies, reports  *)
(* the error and exits with status 1 before runNextjsWizard is invoked: the *)
(* only thing it does is log the error, and no file of the project changes. *)
C11_NotNextjsExitsBeforeWizard ==
    (cmd = "nextjs" /\ lacksNext(before) /\ pc # "cli") =>
        /\ pc = "done"
        /\ exitCode = 1
        /\ exitReason = "not-a-nextjs-project"
        /\ trace = <<Note("cli", "log", "error")>>
        /\ projectInfo = NoInfo
        /\ config = NoConfig
        /\ files = before

\* the sub-command has exited on an unparseable package.json
C11_Witness ==
    /\ cmd = "nextjs"
    /\ pc = "done"
    /\ exitCode = 1
    /\ exitReason = "not-a-nextjs-project"
    /\ PackageJsonPath \in DOMAIN before
    /\ ~before[PackageJsonPath].valid
    /\ files = before

-----------------------------------------------------------------------------
(* Root or `src`: where new files are placed *)

\* the stated precedence: the root when it holds `app` or `pages`, else
\* `src` when that directory exists, else the root
RootOrSrc(ds) ==
    IF <<"app">> \in ds \/ <<"pages">> \in ds THEN Root
    ELSE IF <<"src">> \in ds THEN <<"src">>
    ELSE Root

NoInstrumentationFile(fs) ==
    \A d \in {Root, <<"src">>} : \A e \in {"ts", "js"} :
        File(d, "instrumentation", e) \notin DOMAIN fs

NoRouterDirectory(ds) ==
    ds \cap {<<"app">>, <<"pages">>, <<"src", "app">>, <<"src", "pages">>} = {}

\* setupInstrumentationHook has run to its end and created the file there
InstrumentationCreatedAt(p) ==
    /\ pc' = nextPhase("setupInstrumentationHook", config)
    /\ DOMAIN files' = DOMAIN files \cup {p}
    /\ files'[p].kind = "instrumentation"
    /\ files'[p].importUps = Len(p.dir)
    /\ \A q \in DOMAIN files : files'[q] = files[q]

\* createExamplePage has run to its end and made its pages folder there
PagesFolderMadeAt(d) ==
    /\ d \in dirs'
    /\ \E e \in {"tsx", "jsx"} : File(d, "rollbar-example-page", e) \in DOMAIN files'
    /\ \A q \in DOMAIN files' \ DOMAIN files : SubSeq(q.dir, 1, Len(d)) = d

-----------------------------------------------------------------------------
(* The postbuild script *)

\* scripts.postbuild of the package.json in fs (<<>> when there is none)
postbuildOf(fs) ==
    IF PackageJsonPath \in DOMAIN fs /\ fs[PackageJsonPath].valid
      THEN fs[PackageJsonPath].postbuild
      ELSE <<>>

IsPrefix(s, t) == Len(s) <= Len(t) /\ SubSeq(t, 1, Len(s)) = s

\* `${runner} scripts/upload-sourcemaps.${scriptExt}`
expectedUploadCommand(fs) ==
    IF TsconfigPath \in DOMAIN fs THEN "tsx scripts/upload-sourcemaps.ts"
    ELSE "node scripts/upload-sourcemaps.js"

(* C13: when package.json has a postbuild script, setupSourceMapUploadScript *)
(* never drops or replaces it: whatever the outcome of the step, the old    *)
(* script is a prefix of the new one.  When the step completes, a script    *)
(* that did not mention 'upload-sourcemaps' is the old script followed by   *)
(* ' && ' and the upload command, and a script that mentioned it is         *)
(* unchanged.                                                               *)
C13_PostbuildPreserved ==
    [][ (pc = "setupSourceMapUploadScript" /\ postbuildOf(files) # <<>>) =>
            LET old == postbuildOf(files)
                new == postbuildOf(files')
            IN  /\ IsPrefix(old, new)
                /\ pc' # "done" =>
                      new = IF \E i \in DOMAIN old : commandIncludesUpload(old[i])
                              THEN old
                              ELSE old \o <<expectedUploadCommand(files)>> ]_vars

\* the upload command was appended to a script the project already had
C13_Witness ==
    /\ postbuildOf(before) = <<"next-sitemap">>
    /\ Len(postbuildOf(files)) = 2
    /\ postbuildOf(files)[1] = "next-sitemap"
    /\ commandIncludesUpload(postbuildOf(files)[2])
    /\ \E i \in DOMAIN trace : trace[i].phase = "setupSourceMapUploadScript"

-----------------------------------------------------------------------------
(* The dependency patch of setupSourceMapUploadScript *)

\* the packages the upload script needs
HelperPackages(fs) ==
    {"form-data", "node-fetch", "glob"}
    \cup (IF TsconfigPath \in DOMAIN fs THEN {"tsx", "@types/glob"} ELSE {})

\* the section of package.json restricted to one key (no entry: the empty map)
entryOf(section, pkg) == [k \in DOMAIN section \cap {pkg} |-> section[k]]

\* package.json lists the package, with a version, in one of the two sections
Lists(pj, pkg) ==
    \/ pkg \in DOMAIN pj.dependencies /\ pj.dependencies[pkg] # ""
    \/ pkg \in DOMAIN pj.devDependencies /\ pj.devDependencies[pkg] # ""

-----------------------------------------------------------------------------
(* .env.local *)

\* the lines of content that hold one of the two token keys
TokenKeyLines(content) ==
    { i \in DOMAIN content.lines :
        \/ lineIncludes(content.lines[i], ServerTokenKey)
        \/ lineIncludes(content.lines[i], ClientTokenKey) }

(* C15: when .env.local already contains the key                            *)
(* ROLLBAR_PROJECT_ACCESS_SERVER_TOKEN, setupEnvironmentVariables in        *)
(* non-Vercel mode adds no further occurrence of the token keys and leaves  *)
(* every existing line of the file as it was and where it was.              *)
C15_ExistingEnvLinesKept ==
    [][ (/\ pc = "setupEnvironmentVariables"
         /\ ~config.isVercel
         /\ EnvLocalPath \in DOMAIN files
         /\ includes(files[EnvLocalPath], ServerTokenKey)) =>
            LET old == files[EnvLocalPath]
                new == files'[EnvLocalPath]
            IN  /\ IsPrefix(old.lines, new.lines)
                /\ Cardinality(TokenKeyLines(new)) = Cardinality(TokenKeyLines(old)) ]_vars

\* the lines of .env.local in fs (none when the file is missing)
envLinesOf(fs) ==
    IF EnvLocalPath \in DOMAIN fs THEN fs[EnvLocalPath].lines ELSE <<>>

(* C16: in Vercel mode deployment tracking is off, and                      *)
(* setupEnvironmentVariables only appends to .env.local: the lines that     *)
(* were there stay, and every line it adds is a '#' comment or the empty    *)
(* separator line before the comment block.  No line with a token value     *)
(* and no ROLLBAR_CODE_VERSION assignment is added.                         *)
C16_VercelOnlyComments ==
    [][ (pc = "setupEnvironmentVariables" /\ config.isVercel) =>
            LET old == envLinesOf(files)
                new == envLinesOf(files')
            IN  /\ ~config.enableDeployment
                /\ IsPrefix(old, new)
                /\ \A i \in (Len(old) + 1)..Len(new) :
                      /\ new[i].t \in {"comment", "blank"}
                      /\ ~lineIncludes(new[i], CodeVersionKey)
                      /\ ~lineIncludes(new[i], ServerTokenKey)
                      /\ ~lineIncludes(new[i], ClientTokenKey) ]_vars

\* the Vercel comment block was appended after the person's own line
C16_Witness ==
    /\ config # NoConfig
    /\ config.isVercel
    /\ pc = "setupNextjsConfig"
    /\ Len(envLinesOf(before)) = 1
    /\ Len(envLinesOf(files)) > 4
    /\ envLinesOf(files)[1] = UserEnvLine
    /\ \E i \in DOMAIN envLinesOf(files) :
          envLinesOf(files)[i] = EnvLine("comment", "# Server Token:", "MY_ROLLBAR_SERVER_TOKEN")

-----------------------------------------------------------------------------
(* .gitignore *)

\* the lines of .gitignore in fs that are the entry `.env.local`
EnvLocalEntries(fs) ==
    IF GitignorePath \in DOMAIN fs
      THEN { i \in DOMAIN fs[GitignorePath].lines :
               fs[GitignorePath].lines[i] = EnvLine("entry", ".env.local", "") }
      ELSE {}

(* C17: once setupEnvironmentVariables has completed, .gitignore holds an   *)
(* entry for .env.local, whether or not .gitignore existed and whether or   *)
(* not it listed the file before; an entry that was there is not            *)
(* duplicated.                                                              *)
C17_EnvLocalIgnored ==
    [][ (pc = "setupEnvironmentVariables" /\ pc' # "done") =>
            /\ Cardinality(EnvLocalEntries(files')) >= 1
            /\ EnvLocalEntries(files) # {} =>
                  EnvLocalEntries(files') = EnvLocalEntries(files) ]_vars

-----------------------------------------------------------------------------
(* Error pages *)

\* the router directory of a kind ("pages" or "app"): at the root, else
\* under src; <<>> when there is none
RouterDirectory(ds, kind) ==
    IF <<kind>> \in ds THEN <<kind>>
    ELSE IF <<"src", kind>> \in ds THEN <<"src", kind>>
    ELSE <<>>

\* a .tsx, .ts, .jsx or .js file of that name is in the directory
VariantExists(fs, dir, name) ==
    \E e \in {"tsx", "ts", "jsx", "js"} : File(dir, name, e) \in DOMAIN fs

\* the error file of a router kind and the router types that select it
ErrorFileName(kind) == IF kind = "pages" THEN "_error" ELSE "global-error"
Selects(routerType, kind) == routerType = kind \/ routerType = "both"

(* C18: setupErrorPages changes no existing file.  A file it creates is the *)
(* `_error` file of the detected pages directory or the `global-error` file *)
(* of the detected app directory, with the extension .tsx in a TypeScript   *)
(* project and .jsx otherwise, for a router type selected in the            *)
(* configuration, and only where none of the .tsx/.ts/.jsx/.js variants     *)
(* existed; when the step completes, every such file that was due exists.   *)
C18_ErrorPagesOnlyWhenAbsent ==
    [][ pc = "setupErrorPages" =>
            LET ext == IF TsconfigPath \in DOMAIN files THEN "tsx" ELSE "jsx"
                due == { k \in {"pages", "app"} :
                           /\ Selects(config.routerType, k)
                           /\ RouterDirectory(dirs, k) # <<>>
                           /\ ~VariantExists(files, RouterDirectory(dirs, k), ErrorFileName(k)) }
                target(k) == File(RouterDirectory(dirs, k), ErrorFileName(k), ext)
            IN  /\ \A q \in DOMAIN files : q \in DOMAIN files' /\ files'[q] = files[q]
                /\ DOMAIN files' \ DOMAIN files \subseteq {target(k) : k \in due}
                /\ pc' # "done" => \A k \in due : target(k) \in DOMAIN files' ]_vars

\* the app router was selected, the project had a global-error.tsx of its
\* own, and the completed step added no global-error file next to it
C18_Witness ==
    /\ pc = "setupEnvironmentVariables"
    /\ config.routerType \in {"app", "both"}
    /\ TsconfigPath \notin DOMAIN files
    /\ RouterDirectory(dirs, "app") # <<>>
    /\ File(RouterDirectory(dirs, "app"), "global-error", "tsx") \in DOMAIN before
    /\ files[File(RouterDirectory(dirs, "app"), "global-error", "tsx")] = UserFile
    /\ File(RouterDirectory(dirs, "app"), "global-error", "jsx") \notin DOMAIN files

-----------------------------------------------------------------------------
(* A fresh project *)

\* the keys of both dependency sections
DependencyKeys(pj) == DOMAIN pj.dependencies \cup DOMAIN pj.devDependencies

(* A fresh TypeScript Next.js project: besides package.json, tsconfig.json, *)
(* .gitignore and a lock file it holds nothing, and its package.json has no *)
(* postbuild script and none of the packages the wizard adds.               *)
FreshTypescriptProject(fs) ==
    /\ DOMAIN fs \subseteq {PackageJsonPath, TsconfigPath, GitignorePath,
                            File(Root, "yarn", "lock"), File(Root, "pnpm-lock", "yaml")}
    /\ {PackageJsonPath, TsconfigPath} \subseteq DOMAIN fs
    /\ fs[PackageJsonPath].valid
    /\ fs[PackageJsonPath].postbuild = <<>>
    /\ DependencyKeys(fs[PackageJsonPath])
         \cap {"rollbar", "@rollbar/react", "form-data", "node-fetch", "glob", "tsx",
               "@types/glob"} = {}

\* the first run has succeeded on a fresh TypeScript project with one
\* root-level router directory, with source maps, entered tokens and no
\* example page
FreshScenarioDone ==
    /\ pc = "done"
    /\ exitReason = "success"
    /\ run = 1
    /\ FreshTypescriptProject(before)
    /\ dirs \ {<<"scripts">>} \in {{<<"app">>}, {<<"pages">>}}
    /\ config.enableSourcemaps
    /\ ~config.isVercel
    /\ ~config.createExamplePage

(* C19: in the fresh-project scenario the run creates exactly the three     *)
(* rollbar config files, instrumentation.ts at the root, one next.config    *)
(* file, one error-boundary file in the router directory and                *)
(* scripts/upload-sourcemaps.ts, and besides them only .env.local;          *)
(* package.json gains exactly the packages the wizard needs (the five       *)
(* helper packages, and rollbar and @rollbar/react unless installation is   *)
(* skipped) and a postbuild script of one command; the assignments of       *)
(* .env.local are the two token lines and at most one ROLLBAR_CODE_VERSION  *)
(* line.                                                                    *)
C19_FreshScenario ==
    FreshScenarioDone =>
        LET created == DOMAIN files \ DOMAIN before
            named(n) == {p \in created : p.name = n}
            router == IF <<"app">> \in dirs THEN "app" ELSE "pages"
            old == before[PackageJsonPath]
            new == files[PackageJsonPath]
            env == files[EnvLocalPath].lines
            assigned(k) == {i \in DOMAIN env : env[i].t = "assign" /\ env[i].key = k}
        IN  /\ \A n \in {"rollbar.server.config", "rollbar.edge.config",
                         "rollbar.client.config", "instrumentation"} :
                  named(n) = {File(Root, n, "ts")}
            /\ Cardinality(named("next.config")) = 1
            /\ \A p \in named("next.config") : p.dir = Root
            /\ named(ErrorFileName(router)) = {File(<<router>>, ErrorFileName(router), "tsx")}
            /\ named(ErrorFileName(IF router = "app" THEN "pages" ELSE "app")) = {}
            /\ named("upload-sourcemaps") = {File(<<"scripts">>, "upload-sourcemaps", "ts")}
            /\ EnvLocalPath \in created
            /\ Cardinality(created) = 8
            /\ DependencyKeys(new) \ DependencyKeys(old)
                 = {"form-data", "node-fetch", "glob", "tsx", "@types/glob"}
                   \cup (IF options.skipInstall THEN {} ELSE {"rollbar", "@rollbar/react"})
            /\ \A k \in DependencyKeys(old) :
                  /\ entryOf(new.dependencies, k) = entryOf(old.dependencies, k)
                  /\ entryOf(new.devDependencies, k) = entryOf(old.devDependencies, k)
            /\ new.postbuild = <<"tsx scripts/upload-sourcemaps.ts">>
            /\ Cardinality(assigned(ServerTokenKey)) = 1
            /\ Cardinality(assigned(ClientTokenKey)) = 1
            /\ Cardinality(assigned(CodeVersionKey)) <= 1
            /\ \A i \in DOMAIN env :
                  \/ env[i].t \in {"comment", "blank"}
                  \/ i \in assigned(ServerTokenKey) \cup assigned(ClientTokenKey)
                             \cup assigned(CodeVersionKey)

\* the scenario has run to its end and .env.local holds a code version
C19_Witness ==
    /\ FreshScenarioDone
    /\ Cardinality(DOMAIN files \ DOMAIN before) = 8
    /\ \E i \in DOMAIN files[EnvLocalPath].lines :
          files[EnvLocalPath].lines[i] = EnvLine("assign", CodeVersionKey, "1.2.3")

-----------------------------------------------------------------------------
(* Malformed manifests *)

\* the file exists and does not parse as JSON
Malformed(fs, p) == p \in DOMAIN fs /\ ~fs[p].valid

\* the invocation ended with status 1 for a reason other than a cancelled or
\* declined prompt, missing tokens, a failed write or a failed installation
EndedByManifest ==
    /\ pc = "done"
    /\ exitCode = 1
    /\ exitReason \notin {"prompt-cancelled", "not-confirmed", "tokens-missing"}
    /\ FailedWrites(trace) = {}
    /\ ~InstallFailed

\* the patch of manifest p was skipped with a warning
SkippedWithWarning(p) ==
    \E i \in DOMAIN trace : /\ trace[i].phase = "setupSourceMapUploadScript"
                            /\ trace[i].op = "log"
                            /\ trace[i].level = "warn"
                            /\ trace[i].path = p

\* what the claim says of the manifest p
MalformedManifestSkipped(p) ==
    (cmd = "nextjs" /\ Malformed(before, p)) =>
        /\ ~EndedByManifest
        /\ (exitReason = "success" /\ config.enableSourcemaps) => SkippedWithWarning(p)

(* C20: a package.json or tsconfig.json that does not parse never ends the  *)
(* run: the patch of that manifest is skipped with a warning and the run    *)
(* goes on.                                                                 *)
C20_MalformedManifestSkipped ==
    /\ MalformedManifestSkipped(PackageJsonPath)
    /\ MalformedManifestSkipped(TsconfigPath)

-----------------------------------------------------------------------------
(* Project inspection on its own: the probes of utils/project.ts and        *)
(* detectProjectStructure applied to every project of Init, whatever the    *)
(* command line.                                                            *)

\* isNextjsProject(), isNuxtjsProject() and isSvelteProject() are called
ProbeProject ==
    /\ pc = "cli"
    /\ pc' = "probed"
    /\ trace' = << [phase |-> "probe", op |-> "isNextjsProject", path |-> NoPath,
                    level |-> "", existed |-> isNextjsProject(files)],
                   [phase |-> "probe", op |-> "isNuxtjsProject", path |-> NoPath,
                    level |-> "", existed |-> isNuxtjsProject(files)],
                   [phase |-> "probe", op |-> "isSvelteProject", path |-> NoPath,
                    level |-> "", existed |-> isSvelteProject(files)] >>
    /\ UNCHANGED <<files, dirs, procEnv, listeners, user, cmd, options, projectInfo, draft, config,
                   exitCode, exitReason, run, before, prev>>

\* detectProjectStructure() is called; an exception it throws ends the
\* caller with status 1
InspectProject ==
    /\ pc = "probed"
    /\ IF detectProjectStructureThrows(files)
         THEN /\ Exit(1, "Could not find package.json")
              /\ UNCHANGED projectInfo
         ELSE /\ projectInfo' = detectProjectStructure(files, dirs)
              /\ pc' = "inspected"
              /\ UNCHANGED <<exitCode, exitReason>>
    /\ UNCHANGED <<files, dirs, procEnv, listeners, user, cmd, options, draft, config,
                   run, trace, before, prev>>

InspectNext ==
    \/ ProbeProject
    \/ InspectProject

InspectSpec == Init /\ [][InspectNext]_vars

(* C21: project inspection never throws and never changes the project: on   *)
(* every project, a missing or unparseable package.json included, the       *)
(* three probes return a boolean and detectProjectStructure returns a       *)
(* fingerprint.                                                             *)
C21_InspectionNeverThrows ==
    /\ files = before
    /\ pc = "probed" => \A i \in DOMAIN trace : trace[i].existed \in BOOLEAN
    /\ pc \notin {"cli", "probed"} => (pc = "inspected" /\ projectInfo.set)

-----------------------------------------------------------------------------
(* Signal listeners: runNextjsWizard called several times in one process,   *)
(* which may hold listeners of its own before the first call.               *)

\* number of calls of runNextjsWizard in one process
MaxCalls == 3

\* the listeners other code of the process registered before the first call
PreexistingListeners ==
    { NoListeners,
      [SIGINT |-> <<"other">>, SIGTERM |-> <<>>],
      [SIGINT |-> <<"other", "other">>, SIGTERM |-> <<"other">>] }

HandlersInit == \E ls \in PreexistingListeners : InitWith(ls)

\* runNextjsWizard is called and returns; of what it does only
\* setupExitHandlers touches the listeners
CallRunNextjsWizard ==
    /\ pc \in {"cli", "returned"}
    /\ pc = "returned" => run < MaxCalls
    /\ listeners' = setupExitHandlers(listeners)
    /\ run' = IF pc = "cli" THEN run ELSE run + 1
    /\ pc' = "returned"
    /\ UNCHANGED <<files, dirs, procEnv, user, cmd, options, projectInfo, draft, config,
                   exitCode, exitReason, trace, before, prev>>

\* the listeners a signal calls: in the order of registration, up to the
\* first handler of the wizard, which ends the process
calledListeners(registered) ==
    LET exits == {i \in DOMAIN registered :
                    registered[i] \in {"handleSIGINT", "handleSIGTERM"}}
    IN  IF exits = {} THEN registered
        ELSE SubSeq(registered, 1, CHOOSE i \in exits : \A j \in exits : i <= j)

\* the process receives SIGINT or SIGTERM
DeliverSignal ==
    /\ pc = "returned"
    /\ \E sig \in {"SIGINT", "SIGTERM"} :
          LET called == calledListeners(listeners[sig])
          IN  /\ trace' = trace \o [i \in DOMAIN called |-> Note(called[i], "call", sig)]
              /\ IF \E i \in DOMAIN called : called[i] \in {"handleSIGINT", "handleSIGTERM"}
                   THEN Exit(0, sig)
                   ELSE UNCHANGED <<pc, exitCode, exitReason>>
    /\ UNCHANGED <<files, dirs, procEnv, listeners, user, cmd, options, projectInfo, draft,
                   config, run, before, prev>>

HandlersNext ==
    \/ CallRunNextjsWizard
    \/ DeliverSignal

HandlersSpec == HandlersInit /\ [][HandlersNext]_vars

(* C22: after any number of calls of setupExitHandlers exactly one SIGINT   *)
(* listener and exactly one SIGTERM listener are registered, the handlers   *)
(* of the wizard: listeners registered before, by the wizard or by other    *)
(* code, are replaced.  A signal therefore calls one handler, once.         *)
C22_OneListenerPerSignal ==
    pc \in {"returned", "done"} =>
        /\ listeners = [SIGINT |-> <<"handleSIGINT">>, SIGTERM |-> <<"handleSIGTERM">>]
        /\ pc = "done" => Len(trace) = 1

\* the third call has returned and each signal has its one listener
C22_Witness ==
    /\ pc = "returned"
    /\ run = 3
    /\ Len(listeners.SIGINT) = 1
    /\ Len(listeners.SIGTERM) = 1

-----------------------------------------------------------------------------
(* The --typescript flag *)

\* the files the wizard generates in a JavaScript and a TypeScript variant,
\* with the extension of the TypeScript variant
TypescriptExt(name) ==
    CASE name \in {"rollbar.server.config", "rollbar.edge.config", "rollbar.client.config",
                   "instrumentation", "upload-sourcemaps"} -> "ts"
      [] name \in {"_error", "global-error"} -> "tsx"
      [] OTHER -> ""

(* C23: with --typescript the files the wizard creates are the TypeScript   *)
(* variants (rollbar.*.config.ts, instrumentation.ts, .tsx error pages,     *)
(* upload-sourcemaps.ts), whether or not the project has a tsconfig.json.   *)
C23_TypescriptFlag ==
    ("typescript" \in DOMAIN options /\ options.typescript) =>
        \A p \in DOMAIN files \ DOMAIN before :
            TypescriptExt(p.name) # "" => p.ext = TypescriptExt(p.name)

-----------------------------------------------------------------------------
(* Dispatch of the CLI *)

\* the invocation ended at the CLI entry: one message, nothing else done
EndedAtCli(code, reason, level) ==
    /\ pc = "done"
    /\ exitCode = code
    /\ exitReason = reason
    /\ trace = <<Note("cli", "log", level)>>
    /\ projectInfo = NoInfo
    /\ config = NoConfig
    /\ files = before

(* C24: the nuxtjs and svelte sub-commands print the not-implemented        *)
(* message and exit with status 1; no wizard runs and no file changes.      *)
(* Without a sub-command the project is tried as Next.js, then Nuxt.js,     *)
(* then Svelte: the Next.js wizard runs for a Next.js project whatever else *)
(* is detected, a Nuxt.js project is reported as such even when Svelte is   *)
(* detected too, and when nothing is detected only a message is printed.    *)
C24_Dispatch ==
    pc # "cli" =>
        /\ cmd \in {"nuxtjs", "svelte"} => EndedAtCli(1, "not-implemented", "error")
        /\ cmd = "auto" =>
              IF isNextjsProject(before)
                THEN /\ trace # <<>>
                     /\ trace[1] = Note("cli", "log", "detected")
                     /\ exitReason \notin {"nuxtjs-detected", "svelte-detected", "not-detected"}
              ELSE IF isNuxtjsProject(before) THEN EndedAtCli(1, "nuxtjs-detected", "warn")
              ELSE IF isSvelteProject(before) THEN EndedAtCli(1, "svelte-detected", "warn")
              ELSE EndedAtCli(0, "not-detected", "warn")

\* a project that is both Nuxt.js and Svelte was reported as Nuxt.js
C24_Witness ==
    /\ cmd = "auto"
    /\ isNuxtjsProject(before)
    /\ isSvelteProject(before)
    /\ EndedAtCli(1, "nuxtjs-detected", "warn")

-----------------------------------------------------------------------------
(* Declining at the instrumentation prompt *)

\* the process ended at "Did you add the code to your instrumentation file?"
InstrumentationDeclined ==
    /\ pc = "done"
    /\ exitReason \in {"not-confirmed", "prompt-cancelled"}
    /\ trace # <<>>
    /\ trace[Len(trace)].op = "prompt"
    /\ trace[Len(trace)].level = "instrumentation"

RollbarConfigNames ==
    {"rollbar.server.config", "rollbar.edge.config", "rollbar.client.config"}

(* C25: when the person cancels or answers No at the instrumentation        *)
(* prompt, the process has ended with nothing done after the prompt: no     *)
(* later phase has started, and apart from package.json (the installs) and  *)
(* the rollbar config files every file is as the invocation found it.  The  *)
(* three rollbar config files written before the prompt are still there.    *)
C25_DeclineStopsKeepsConfigs ==
    InstrumentationDeclined =>
        /\ exitCode = 1
        /\ \A i \in DOMAIN trace :
              trace[i].phase \in {"cli", "detectProjectStructure", "gatherConfiguration",
                                  "configuration", "installPackages", "createConfigFiles",
                                  "setupInstrumentationHook"}
        /\ \A p \in DOMAIN files :
              \/ p.name \in RollbarConfigNames
              \/ p = PackageJsonPath
              \/ (p \in DOMAIN before /\ files[p] = before[p])
        /\ DOMAIN before \subseteq DOMAIN files
        /\ \A n \in RollbarConfigNames :
              \E e \in {"ts", "js"} :
                  /\ File(Root, n, e) \in DOMAIN files
                  /\ files[File(Root, n, e)].kind = n

\* the person answered No and the config files of this run are in place
C25_Witness ==
    /\ InstrumentationDeclined
    /\ exitReason = "not-confirmed"
    /\ \A n \in RollbarConfigNames :
          \E e \in {"ts", "js"} : File(Root, n, e) \in DOMAIN files \ DOMAIN before

-----------------------------------------------------------------------------
(* next.config *)

NextConfigPaths == {nextConfigJsPath, nextConfigMjsPath, nextConfigTsPath}

(* The module format of a next.config text, told by its syntax: TypeScript  *)
(* when it imports the NextConfig type, else ESM when it ends in an export  *)
(* statement, else CommonJS when it ends in module.exports.                 *)
ConfigFormat(content) ==
    LET ls == content.lines
    IN  IF ls = <<>> THEN "none"
        ELSE IF ls[1].starts = "import" THEN "ts"
        ELSE IF ls[Len(ls)].starts = "export" THEN "mjs"
        ELSE IF ls[Len(ls)].starts = "module.exports" THEN "js"
        ELSE "none"

(* C26: with source maps enabled and no next.config.js, .mjs or .ts in the  *)
(* project, a completed setupNextjsConfig creates exactly one of them:      *)
(* next.config.ts, from the TypeScript template, in a TypeScript project;   *)
(* otherwise next.config.mjs when package.json has type module, and         *)
(* next.config.js for a CommonJS JavaScript project.                        *)
C26_NewConfigFollowsProject ==
    [][ (/\ pc = "setupNextjsConfig"
         /\ config.enableSourcemaps
         /\ NextConfigPaths \cap DOMAIN files = {}
         /\ pc' # "done") =>
            LET expected ==
                  IF TsconfigPath \in DOMAIN files THEN nextConfigTsPath
                  ELSE IF files[PackageJsonPath].esm THEN nextConfigMjsPath
                  ELSE nextConfigJsPath
            IN  /\ DOMAIN files' \ DOMAIN files = {expected}
                /\ ConfigFormat(files'[expected]) = expected.ext ]_vars

(* C27: whenever setupNextjsConfig rewrites an existing next.config file,   *)
(* the text it writes has the format of the file it writes to: CommonJS     *)
(* for next.config.js, ESM for next.config.mjs, TypeScript for              *)
(* next.config.ts, whichever of the three files are present.                *)
C27_TemplateMatchesFile ==
    [][ pc = "setupNextjsConfig" =>
            \A p \in NextConfigPaths \cap DOMAIN files :
                files'[p] # files[p] => ConfigFormat(files'[p]) = p.ext ]_vars


(* C28: setupInstrumentationHook never overwrites an instrumentation file:  *)
(* whatever root app / pages / src directories and whatever                 *)
(* instrumentation.ts / instrumentation.js at the root or under src/ the    *)
(* project holds, the path the handler writes to did not exist before the   *)
(* write.                                                                   *)
C28_InstrumentationNeverOverwritten ==
    \A i \in DOMAIN trace :
        (trace[i].phase = "setupInstrumentationHook" /\ trace[i].op = "write")
        => ~trace[i].existed


\* content holds a line that begins with an assignment to key (text joined
\* to the end of such a line leaves the key defined)
Defines(content, key) ==
    \E i \in DOMAIN content.lines :
        content.lines[i].t \in {"assign", "joined"} /\ content.lines[i].key = key

(* C29: once setupEnvironmentVariables has completed in non-Vercel mode,    *)
(* .env.local defines ROLLBAR_PROJECT_ACCESS_SERVER_TOKEN and               *)
(* NEXT_PUBLIC_ROLLBAR_PROJECT_ACCESS_CLIENT_TOKEN, whatever .env.local     *)
(* held before (nothing, other keys, one of the two keys, both).            *)
C29_BothTokensDefined ==
    [][ (/\ pc = "setupEnvironmentVariables"
         /\ ~config.isVercel
         /\ pc' # "done") =>
            /\ EnvLocalPath \in DOMAIN files'
            /\ Defines(files'[EnvLocalPath], ServerTokenKey)
            /\ Defines(files'[EnvLocalPath], ClientTokenKey) ]_vars


-----------------------------------------------------------------------------
(* relative imports of the rollbar configs *)

ImportingKinds ==
    { "instrumentation", "_error", "global-error", "rollbar-example-page",
      "rollbar-example-api.app", "rollbar-example-api.pages" }

\* the generated files that import a rollbar config
ImportingFiles(fs) == { p \in DOMAIN fs : fs[p].kind \in ImportingKinds }

\* the import of p climbs from p's directory to the project root, where the
\* config it names exists
ResolvesToRoot(fs, p) ==
    /\ fs[p].importUps = Len(p.dir)
    /\ \A n \in fs[p].imports : \E e \in {"ts", "js"} : File(Root, n, e) \in DOMAIN fs

(* C30: every generated file that imports a rollbar config (the             *)
(* instrumentation hook at the root or under src/, the _error and           *)
(* global-error pages, the example page and the example API routes, in      *)
(* root-level and in src/-nested router directories) imports it by a        *)
(* relative path with as many '..' segments as its directory is deep        *)
(* below the project root, where the rollbar.*.config file exists.          *)
C30_ImportsResolveToRoot ==
    \A p \in ImportingFiles(files) : ResolvesToRoot(files, p)

\* a finished run in a project with src/app and src/pages: the hook one
\* level, the error pages two, the example page three and the API route
\* four levels below the root
C30_Witness ==
    /\ pc = "done"
    /\ exitCode = 0
    /\ LET fs == ImportingFiles(files)
       IN  /\ \E p \in fs : files[p].kind = "instrumentation" /\ p.dir = <<"src">>
           /\ \E p \in fs : files[p].kind = "global-error" /\ p.dir = <<"src", "app">>
           /\ \E p \in fs : files[p].kind = "rollbar-example-page" /\ Len(p.dir) = 3
           /\ \E p \in fs : files[p].kind = "rollbar-example-api.app" /\ Len(p.dir) = 4

====
